---- MODULE Spec2Model ----
(***************************************************************************)
(* A model of the refinement engine of CrashDataRefiner                    *)
(* (src/crash_data_refiner/refiner.py, geo.py).                            *)
(*                                                                         *)
(* Cell values are the scalars of the row contract (str, int, float, bool, *)
(* None).  Text is processed character by character, as the code does:     *)
(* a Python str is a TLA+ string, taken apart with Chars and put together  *)
(* with Str.                                                               *)
(***************************************************************************)
EXTENDS Integers, Sequences, FiniteSets, TLC

VARIABLES
    cfg,            \* self.config: the normalized RefinementConfig
    scen,           \* which input family the caller draws rows from
    pc,             \* position of the running call
    inrows,         \* the raw rows the call has consumed so far, in order
    fate,           \* per consumed row: where it went ("kept", "missing", ...)
    refined_rows,   \* refine_rows: the list of rows kept so far
    dedupe_index,   \* refine_rows: the set of dedupe keys seen
    cnt,            \* refine_rows: the seven counters of the report
    report,         \* the RefinementReport returned (NoReport before return)
    boundary,       \* filter_rows_by_boundary: the PolygonBoundary argument
    included,       \* filter_rows_by_boundary: rows inside the boundary
    excluded,       \* filter_rows_by_boundary: rows outside the boundary
    invalid,        \* filter_rows_by_boundary: rows without coordinates
    breport,        \* the BoundaryFilterReport returned
    second,         \* what a second refine_rows call, on the first call's
                    \* output, returned (NoResult before it ran)
    point,          \* point_in_polygon: the last <<lon, lat>> asked about
    kmz,            \* load_kmz_polygon: the members of the archive at path
    result,         \* what the last geo.py call returned or raised
    calls,          \* concurrent refine_rows calls: per call, its consumed
                    \* rows, its locals and what it returned
    run,            \* webapp: the RunState of one run
    worker,         \* webapp: the job thread of the run (position, pending lines)
    client,         \* webapp: a polling client (position, request, responses)
    arg,            \* the argument of a call of one of the pure helpers
    ret,            \* what that call returned
    heap            \* the mappings of a caller and of the call it makes, by
                    \* identity: the caller's rows and the rows the call builds

vars == <<cfg, scen, pc, inrows, fate, refined_rows, dedupe_index, cnt, report,
          boundary, included, excluded, invalid, breport, second,
          point, kmz, result, calls, run, worker, client,
          arg, ret, heap>>

-----------------------------------------------------------------------------
(* Bounds of the model.                                                    *)

\* the points asked about lie on a grid of MaxSteps + 1 values per axis
MaxSteps == 10

\* the markup of an archive member holds at most MaxPolygons Polygon elements
MaxPolygons == 2

\* each of the interleaved refine_rows calls consumes at most MaxCallRows rows
MaxCallRows == 2

\* a state-road text starts with at most MaxDirections direction tokens
MaxDirections == 1

\* a header has at most MaxHeaderLen characters
MaxHeaderLen == 4

\* the caller whose mappings are tracked by identity passes at most
\* MaxFrameRows rows
MaxFrameRows == 2

\* the try block of a refinement job logs MaxWorkLines lines before it ends
MaxWorkLines == 2

\* the client sends at most MaxPolls requests
MaxPolls == 3

\* The longest input a call is given.
MaxRows == 3

-----------------------------------------------------------------------------
(* Python str primitives.                                                  *)

Chars(s) == [i \in 1..Len(s) |-> SubSeq(s, i, i)]

RECURSIVE Str(_)
Str(cs) == IF cs = <<>> THEN "" ELSE Head(cs) \o Str(Tail(cs))

Range(f) == {f[i] : i \in DOMAIN f}

Digits == {"0", "1", "2", "3", "4", "5", "6", "7", "8", "9"}
LowerAlpha == Chars("abcdefghijklmnopqrstuvwxyz")
UpperAlpha == Chars("ABCDEFGHIJKLMNOPQRSTUVWXYZ")
Letters == Range(LowerAlpha) \cup Range(UpperAlpha)
AlNum == Digits \cup Letters
\* str.isspace() over the characters the model's texts are written in
Space == {" "}

LowerChar(c) ==
    IF c \in Range(UpperAlpha)
    THEN LowerAlpha[CHOOSE i \in 1..26 : UpperAlpha[i] = c]
    ELSE c

UpperChar(c) ==
    IF c \in Range(LowerAlpha)
    THEN UpperAlpha[CHOOSE i \in 1..26 : LowerAlpha[i] = c]
    ELSE c

\* str.lower() / str.upper() on a character sequence
LowerCs(cs) == [i \in DOMAIN cs |-> LowerChar(cs[i])]
UpperCs(cs) == [i \in DOMAIN cs |-> UpperChar(cs[i])]

\* str.strip(chars) on a character sequence
RECURSIVE LStripCs(_, _)
LStripCs(cs, S) ==
    IF cs # <<>> /\ Head(cs) \in S THEN LStripCs(Tail(cs), S) ELSE cs

RECURSIVE RStripCs(_, _)
RStripCs(cs, S) ==
    IF cs # <<>> /\ cs[Len(cs)] \in S
    THEN RStripCs(SubSeq(cs, 1, Len(cs) - 1), S)
    ELSE cs

StripCs(cs, S) == RStripCs(LStripCs(cs, S), S)

\* str.strip()
Strip(s) == Str(StripCs(Chars(s), Space))

\* re.sub(r"[S]+", r, cs): every maximal run of characters of S becomes r
RECURSIVE SubRuns(_, _, _)
SubRuns(cs, S, r) ==
    IF cs = <<>> THEN <<>>
    ELSE IF Head(cs) \in S
         THEN r \o SubRuns(LStripCs(cs, S), S, r)
         ELSE <<Head(cs)>> \o SubRuns(Tail(cs), S, r)

\* str.split(): the maximal runs of non-whitespace characters
RECURSIVE SplitCs(_)
SplitCs(cs) ==
    LET t == LStripCs(cs, Space) IN
    IF t = <<>> THEN <<>>
    ELSE LET n == IF \E i \in 1..Len(t) : t[i] \in Space
                  THEN (CHOOSE i \in 1..Len(t) :
                           /\ t[i] \in Space
                           /\ \A j \in 1..(i - 1) : t[j] \notin Space) - 1
                  ELSE Len(t)
         IN <<Str(SubSeq(t, 1, n))>> \o SplitCs(SubSeq(t, n + 1, Len(t)))

\* " ".join(tokens)
RECURSIVE JoinSp(_)
JoinSp(tokens) ==
    IF tokens = <<>> THEN ""
    ELSE IF Len(tokens) = 1 THEN tokens[1]
    ELSE tokens[1] \o " " \o JoinSp(Tail(tokens))

-----------------------------------------------------------------------------
(* _normalize_header                                                       *)

\* a normalization that leaves out str.lower()
NormalizeHeaderKeepCase(header) ==
    LET low      == StripCs(Chars(header), Space)
        cleaned  == SubRuns(low, Range(low) \ AlNum, <<"_">>)
        cleaned2 == SubRuns(cleaned, {"_"}, <<"_">>)
    IN Str(StripCs(cleaned2, {"_"}))

NormalizeHeader(header) ==
    LET low      == LowerCs(StripCs(Chars(header), Space))
        cleaned  == SubRuns(low, Range(low) \ AlNum, <<"_">>)
        cleaned2 == SubRuns(cleaned, {"_"}, <<"_">>)
    IN Str(StripCs(cleaned2, {"_"}))

-----------------------------------------------------------------------------
(* Cell values.  A number is n / 10^p (an int has p = 0); k tells finite   *)
(* numbers from inf and nan.                                               *)

StrV(s)      == [t |-> "str",   s |-> s,  n |-> 0, p |-> 0, k |-> "fin", b |-> FALSE]
IntV(n)      == [t |-> "int",   s |-> "", n |-> n, p |-> 0, k |-> "fin", b |-> FALSE]
FloatV(n, p) == [t |-> "float", s |-> "", n |-> n, p |-> p, k |-> "fin", b |-> FALSE]
InfV(sign)   == [t |-> "float", s |-> "", n |-> sign, p |-> 0, k |-> "inf", b |-> FALSE]
NanV         == [t |-> "float", s |-> "", n |-> 0, p |-> 0, k |-> "nan", b |-> FALSE]
BoolV(b)     == [t |-> "bool",  s |-> "", n |-> 0, p |-> 0, k |-> "fin", b |-> b]
NoneV        == [t |-> "none",  s |-> "", n |-> 0, p |-> 0, k |-> "fin", b |-> FALSE]

IsStr(v)  == v.t = "str"
IsNone(v) == v.t = "none"
IsNum(v)  == v.t \in {"int", "float", "bool"}

\* Python's == on two scalars: numbers compare by value across int, float and
\* bool (True == 1), nan equals nothing, and a str equals only the same str.
NumEq(a, b) ==
    /\ a.k # "nan" /\ b.k # "nan"
    /\ a.k = b.k
    /\ LET an == IF a.t = "bool" THEN (IF a.b THEN 1 ELSE 0) ELSE a.n
           bn == IF b.t = "bool" THEN (IF b.b THEN 1 ELSE 0) ELSE b.n
       IN a.k = "inf" => an = bn
    /\ a.k = "fin" =>
          LET an == IF a.t = "bool" THEN (IF a.b THEN 1 ELSE 0) ELSE a.n
              bn == IF b.t = "bool" THEN (IF b.b THEN 1 ELSE 0) ELSE b.n
          IN an = bn /\ a.p = b.p

PyEq(a, b) ==
    CASE IsNum(a) /\ IsNum(b) -> NumEq(a, b)
      [] IsStr(a) /\ IsStr(b) -> a.s = b.s
      [] IsNone(a) /\ IsNone(b) -> TRUE
      [] OTHER -> FALSE

\* value in (None, "")
InNoneOrEmpty(v) == PyEq(v, NoneV) \/ PyEq(v, StrV(""))

DigitSeq == Chars("0123456789")
DigitVal(c) == (CHOOSE i \in 1..10 : DigitSeq[i] = c) - 1

RECURSIVE Pow10(_)
Pow10(k) == IF k = 0 THEN 1 ELSE 10 * Pow10(k - 1)

\* the value of a sequence of decimal digits
RECURSIVE DigitsVal(_)
DigitsVal(cs) ==
    IF cs = <<>> THEN 0
    ELSE 10 * DigitsVal(SubSeq(cs, 1, Len(cs) - 1)) + DigitVal(cs[Len(cs)])

\* the decimal digits of n >= 0
RECURSIVE NatStr(_)
NatStr(n) ==
    IF n < 10 THEN DigitSeq[n + 1] ELSE NatStr(n \div 10) \o DigitSeq[(n % 10) + 1]

\* n >= 0 in at least w digits, zero padded
RECURSIVE Pad(_, _)
Pad(n, w) == IF Len(NatStr(n)) >= w THEN NatStr(n) ELSE
             LET RECURSIVE Z(_)
                 Z(k) == IF k = 0 THEN "" ELSE "0" \o Z(k - 1)
             IN Z(w - Len(NatStr(n))) \o NatStr(n)

IntStr(n) == IF n < 0 THEN "-" \o NatStr(-n) ELSE NatStr(n)

\* a float n / 10^p in lowest terms of p
RECURSIVE NormFloat(_, _)
NormFloat(n, p) ==
    IF p < 0 THEN NormFloat(n * 10, p + 1)
    ELSE IF p > 0 /\ n % 10 = 0 THEN NormFloat(n \div 10, p - 1)
    ELSE FloatV(n, p)

\* repr(float), in the positional form repr uses for 1e-4 <= |x| < 1e16
FloatStr(v) ==
    CASE v.k = "nan" -> "nan"
      [] v.k = "inf" -> IF v.n < 0 THEN "-inf" ELSE "inf"
      [] OTHER ->
           LET a == IF v.n < 0 THEN -v.n ELSE v.n
               sign == IF v.n < 0 THEN "-" ELSE ""
           IN IF v.p = 0 THEN sign \o NatStr(a) \o ".0"
              ELSE sign \o NatStr(a \div Pow10(v.p)) \o "." \o Pad(a % Pow10(v.p), v.p)

\* str(value)
PyStr(v) ==
    CASE v.t = "str"   -> v.s
      [] v.t = "int"   -> IntStr(v.n)
      [] v.t = "float" -> FloatStr(v)
      [] v.t = "bool"  -> IF v.b THEN "True" ELSE "False"
      [] OTHER         -> "None"

-----------------------------------------------------------------------------
(* int(text) and float(text)                                               *)

\* digit ("_"? digit)* : the digit groups Python's numeric literals accept
IsDigitPart(cs) ==
    /\ cs # <<>>
    /\ \A i \in DOMAIN cs : cs[i] \in Digits \cup {"_"}
    /\ cs[1] # "_" /\ cs[Len(cs)] # "_"
    /\ \A i \in 1..(Len(cs) - 1) : ~(cs[i] = "_" /\ cs[i + 1] = "_")

OnlyDigits(cs) == SelectSeq(cs, LAMBDA c : c \in Digits)

HasSign(cs) == cs # <<>> /\ cs[1] \in {"+", "-"}
Unsigned(cs) == IF HasSign(cs) THEN Tail(cs) ELSE cs
SignOf(cs) == IF cs # <<>> /\ cs[1] = "-" THEN -1 ELSE 1

\* int(text) succeeds
IsIntText(text) == IsDigitPart(Unsigned(StripCs(Chars(text), Space)))

IntOfText(text) ==
    LET cs == StripCs(Chars(text), Space)
    IN SignOf(cs) * DigitsVal(OnlyDigits(Unsigned(cs)))

\* the position of the first character of S in cs, or 0
FirstIn(cs, S) ==
    IF \E i \in DOMAIN cs : cs[i] \in S
    THEN CHOOSE i \in DOMAIN cs : cs[i] \in S /\ \A j \in 1..(i - 1) : cs[j] \notin S
    ELSE 0

\* the parts of a decimal literal: integer digits, fraction digits, exponent
FloatParts(body) ==
    LET e    == FirstIn(body, {"e", "E"})
        mant == IF e = 0 THEN body ELSE SubSeq(body, 1, e - 1)
        expo == IF e = 0 THEN <<>> ELSE SubSeq(body, e + 1, Len(body))
        d    == FirstIn(mant, {"."})
        ip   == IF d = 0 THEN mant ELSE SubSeq(mant, 1, d - 1)
        fp   == IF d = 0 THEN <<>> ELSE SubSeq(mant, d + 1, Len(mant))
    IN [hasexp |-> e # 0, expo |-> expo, hasdot |-> d # 0, ip |-> ip, fp |-> fp]

IsDecimalText(body) ==
    LET q == FloatParts(body) IN
    /\ q.ip # <<>> \/ q.fp # <<>>
    /\ q.ip # <<>> => IsDigitPart(q.ip)
    /\ q.fp # <<>> => IsDigitPart(q.fp)
    /\ q.hasexp => IsDigitPart(Unsigned(q.expo))

IsSpecialFloat(body) == Str(LowerCs(body)) \in {"inf", "infinity", "nan"}

\* float(text) succeeds
IsFloatText(text) ==
    LET body == Unsigned(StripCs(Chars(text), Space))
    IN IsSpecialFloat(body) \/ IsDecimalText(body)

DecimalOf(sign, q) ==
    NormFloat(sign * DigitsVal(OnlyDigits(q.ip \o q.fp)),
              Len(OnlyDigits(q.fp))
              - (IF q.hasexp
                 THEN SignOf(q.expo) * DigitsVal(OnlyDigits(Unsigned(q.expo)))
                 ELSE 0))

FloatOfStripped(cs) ==
    IF Str(LowerCs(Unsigned(cs))) = "nan" THEN NanV
    ELSE IF IsSpecialFloat(Unsigned(cs)) THEN InfV(SignOf(cs))
    ELSE DecimalOf(SignOf(cs), FloatParts(Unsigned(cs)))

FloatOfText(text) == FloatOfStripped(StripCs(Chars(text), Space))

-----------------------------------------------------------------------------
(* _coerce_numeric, _coerce_boolean                                        *)

\* numeric_type(text) for int, or None on ValueError
IntOrNone(text) ==
    IF text = "" THEN NoneV
    ELSE IF IsIntText(text) THEN IntV(IntOfText(text)) ELSE NoneV

\* numeric_type(text) for float, or None on ValueError
FloatOrNone(text) ==
    IF text = "" THEN NoneV
    ELSE IF IsFloatText(text) THEN FloatOfText(text) ELSE NoneV

\* _coerce_numeric(value, int), then int(coerced)
CoerceInt(value) ==
    IF IsNone(value) THEN NoneV ELSE IntOrNone(Strip(PyStr(value)))

\* _coerce_numeric(value, float), then float(coerced)
CoerceFloat(value) ==
    IF IsNone(value) THEN NoneV ELSE FloatOrNone(Strip(PyStr(value)))

TrueWords  == {"true", "t", "1", "yes", "y"}
FalseWords == {"false", "f", "0", "no", "n"}

BoolOrNone(text) ==
    IF text \in TrueWords THEN BoolV(TRUE)
    ELSE IF text \in FalseWords THEN BoolV(FALSE)
    ELSE NoneV

CoerceBoolean(value) ==
    IF IsNone(value) THEN NoneV
    ELSE BoolOrNone(Str(LowerCs(StripCs(Chars(PyStr(value)), Space))))

-----------------------------------------------------------------------------
(* _parse_date                                                             *)

DATE_FORMATS ==
    << "%Y-%m-%d", "%Y-%m-%d %H:%M", "%Y-%m-%d %H:%M:%S",
       "%m/%d/%Y", "%m/%d/%Y %H:%M", "%m/%d/%Y %H:%M:%S", "%d-%b-%Y" >>

MonthAbbr ==
    << "jan", "feb", "mar", "apr", "may", "jun",
       "jul", "aug", "sep", "oct", "nov", "dec" >>

\* a character class of the ISO pattern: d = \d, S = [T ], anything else itself
PatChar(c, pc0) ==
    CASE pc0 = "d" -> c \in Digits
      [] pc0 = "S" -> c \in {"T", " "}
      [] OTHER     -> c = pc0

MatchPat(cs, pat) ==
    /\ Len(cs) = Len(pat)
    /\ \A i \in DOMAIN cs : PatChar(cs[i], SubSeq(pat, i, i))

\* re.fullmatch(r"\d{4}-\d{2}-\d{2}(?:[T ]\d{2}:\d{2}(?::\d{2})?)?", text)
IsoMatch(cs) ==
    \/ MatchPat(cs, "dddd-dd-dd")
    \/ MatchPat(cs, "dddd-dd-ddSdd:dd")
    \/ MatchPat(cs, "dddd-dd-ddSdd:dd:dd")

\* text.replace(" ", "T"), the arguments exchanged
ReplaceTReversed(cs) == [i \in DOMAIN cs |-> IF cs[i] = " " THEN "T" ELSE cs[i]]

\* text.replace("T", " ")
ReplaceT(cs) == [i \in DOMAIN cs |-> IF cs[i] = "T" THEN " " ELSE cs[i]]

\* The ways one strptime directive matches a prefix of cs: <<length, value>>.
\* %Y \d\d\d\d; %m 1[0-2]|0[1-9]|[1-9]; %d 3[01]|[12]\d|0[1-9]|[1-9]| [1-9];
\* %H 2[0-3]|[0-1]\d|\d; %M [0-5]\d|\d; %S 6[0-1]|[0-5]\d|\d; %b a month name.
TwoDigits(cs, lo, hi) ==
    IF Len(cs) >= 2 /\ cs[1] \in Digits /\ cs[2] \in Digits
       /\ DigitsVal(SubSeq(cs, 1, 2)) \in lo..hi
    THEN {<<2, DigitsVal(SubSeq(cs, 1, 2))>>} ELSE {}

OneDigit(cs, lo) ==
    IF Len(cs) >= 1 /\ cs[1] \in Digits /\ DigitVal(cs[1]) >= lo
    THEN {<<1, DigitVal(cs[1])>>} ELSE {}

DirectiveMatches(cs, d) ==
    CASE d = "Y" -> IF Len(cs) >= 4 /\ \A i \in 1..4 : cs[i] \in Digits
                    THEN {<<4, DigitsVal(SubSeq(cs, 1, 4))>>} ELSE {}
      [] d = "m" -> TwoDigits(cs, 1, 12) \cup OneDigit(cs, 1)
      [] d = "d" -> TwoDigits(cs, 1, 31) \cup OneDigit(cs, 1)
                    \cup (IF Len(cs) >= 2 /\ cs[1] = " " /\ cs[2] \in Digits \ {"0"}
                          THEN {<<2, DigitVal(cs[2])>>} ELSE {})
      [] d = "H" -> TwoDigits(cs, 0, 23) \cup OneDigit(cs, 0)
      [] d = "M" -> TwoDigits(cs, 0, 59) \cup OneDigit(cs, 0)
      [] d = "S" -> TwoDigits(cs, 0, 61) \cup OneDigit(cs, 0)
      [] d = "b" -> IF Len(cs) >= 3
                       /\ \E i \in 1..12 : MonthAbbr[i] = Str(LowerCs(SubSeq(cs, 1, 3)))
                    THEN {<<3, CHOOSE i \in 1..12 :
                                 MonthAbbr[i] = Str(LowerCs(SubSeq(cs, 1, 3)))>>}
                    ELSE {}
      [] OTHER -> {}

\* The fields with which format f (a character sequence) matches all of cs.
\* A blank of the format stands for \s+, any other character for itself.
RECURSIVE FormatMatches(_, _, _)
FormatMatches(cs, f, acc) ==
    IF f = <<>> THEN (IF cs = <<>> THEN {acc} ELSE {})
    ELSE IF f[1] = "%"
    THEN UNION { FormatMatches(SubSeq(cs, m[1] + 1, Len(cs)), SubSeq(f, 3, Len(f)),
                               [acc EXCEPT ![f[2]] = m[2]])
                 : m \in DirectiveMatches(cs, f[2]) }
    ELSE IF f[1] = " "
    THEN UNION { FormatMatches(SubSeq(cs, k + 1, Len(cs)), Tail(f), acc)
                 : k \in {j \in 1..Len(cs) : \A i \in 1..j : cs[i] \in Space} }
    ELSE IF cs # <<>> /\ cs[1] = f[1]
    THEN FormatMatches(Tail(cs), Tail(f), acc)
    ELSE {}

IsLeap(y) == (y % 4 = 0 /\ y % 100 # 0) \/ y % 400 = 0

DaysInMonth(y, m) ==
    CASE m \in {4, 6, 9, 11} -> 30
      [] m = 2 -> IF IsLeap(y) THEN 29 ELSE 28
      [] OTHER -> 31

NoFields == [d \in {"Y", "m", "d", "H", "M", "S", "b"} |-> 0]

\* the datetime a format yields for the text; datetime() rejects year 0, a day
\* the month does not have and a second above 59
ValidParses(cs, fmt) ==
    { q \in { [year |-> a["Y"], month |-> IF a["b"] # 0 THEN a["b"] ELSE a["m"],
               day |-> a["d"], hour |-> a["H"], minute |-> a["M"], second |-> a["S"]]
              : a \in FormatMatches(cs, Chars(fmt), NoFields) } :
        /\ q.year >= 1
        /\ q.day <= DaysInMonth(q.year, q.month)
        /\ q.second <= 59 }

\* strftime("%Y-%m-%d") and strftime("%Y-%m-%d %H:%M:%S")
StrfDate(q) == Pad(q.year, 4) \o "-" \o Pad(q.month, 2) \o "-" \o Pad(q.day, 2)
StrfDateTime(q) ==
    StrfDate(q) \o " " \o Pad(q.hour, 2) \o ":" \o Pad(q.minute, 2)
                \o ":" \o Pad(q.second, 2)

\* what a matching format returns: date-only formats emit YYYY-MM-DD
FormatResult(fmt, parsed) ==
    IF fmt = "%Y-%m-%d" \/ fmt = "%m/%d/%Y" \/ fmt = "%d-%b-%Y"
    THEN StrfDate(parsed)
    ELSE StrfDateTime(parsed)

\* the loop over _DATE_FORMATS, from format i on
RECURSIVE TryFormats(_, _)
TryFormats(cs, i) ==
    IF i > Len(DATE_FORMATS) THEN Str(cs)
    ELSE IF ValidParses(cs, DATE_FORMATS[i]) = {} THEN TryFormats(cs, i + 1)
    ELSE FormatResult(DATE_FORMATS[i],
                      CHOOSE q \in ValidParses(cs, DATE_FORMATS[i]) : TRUE)

\* value.strip() raises AttributeError unless value is a str
ParseDateRaises(value) == ~IsNone(value) /\ ~IsStr(value)

\* _parse_date on the stripped text
ParseText(text) ==
    IF text = <<>> THEN NoneV
    ELSE IF IsoMatch(text) THEN StrV(Str(ReplaceT(text)))
    ELSE StrV(TryFormats(text, 1))

\* _parse_date(value) for a str or None
ParseDate(value) ==
    IF IsNone(value) THEN NoneV ELSE ParseText(StripCs(Chars(value.s), Space))

-----------------------------------------------------------------------------
(* Rows: a normalized row maps canonical headers to cell values.           *)

\* row.get(column)
Get(row, column) == IF column \in DOMAIN row THEN row[column] ELSE NoneV

\* row[column] = value
Put(row, column, value) ==
    [c \in DOMAIN row \cup {column} |-> IF c = column THEN value ELSE row[c]]

\* _normalize_row over a raw row, a sequence of <<header, value>> items: a
\* later item overwrites an earlier one with the same canonical header
RECURSIVE NormalizeRow(_)
NormalizeRow(raw) ==
    IF raw = <<>> THEN [c \in {} |-> NoneV]
    ELSE LET last == raw[Len(raw)]
         IN Put(NormalizeRow(SubSeq(raw, 1, Len(raw) - 1)),
                NormalizeHeader(last[1]), last[2])

-----------------------------------------------------------------------------
(* Name standardizer, pass 1                                               *)

CRASH_TYPE_COLUMNS ==
    {"crash_type", "manner_of_collision", "collision_type", "collision_manner"}

ROUTE_COLUMNS ==
    {"route", "roadway_name", "roadway_id", "road_name", "street_name",
     "roadway_number", "roadway_suffix", "intersecting_road_name",
     "intersecting_road_number"}

CRASH_TYPE_CANONICAL ==
    << <<"rear end", "Rear End">>, <<"rearend", "Rear End">>,
       <<"head on", "Head On">>, <<"headon", "Head On">>,
       <<"left turn", "Left Turn">>, <<"right turn", "Right Turn">>,
       <<"sideswipe same direction", "Same Direction Sideswipe">>,
       <<"same direction sideswipe", "Same Direction Sideswipe">>,
       <<"sideswipe opposite direction", "Opposite Direction Sideswipe">>,
       <<"opposite direction sideswipe", "Opposite Direction Sideswipe">>,
       <<"backing", "Backing Crash">>, <<"backing crash", "Backing Crash">> >>

ROUTE_TOKEN_MAP ==
    << <<"AVENUE", "AVE">>, <<"BOULEVARD", "BLVD">>, <<"CIRCLE", "CIR">>,
       <<"COURT", "CT">>, <<"DRIVE", "DR">>, <<"EAST", "E">>,
       <<"EASTBOUND", "E">>, <<"EB", "E">>, <<"EXPRESSWAY", "EXPY">>,
       <<"FREEWAY", "FWY">>, <<"FORT", "FT">>, <<"HIGHWAY", "HWY">>,
       <<"INTERSTATE", "I">>, <<"JUNCTION", "JCT">>, <<"LANE", "LN">>,
       <<"MOUNT", "MT">>, <<"NORTH", "N">>, <<"NORTHBOUND", "N">>,
       <<"NB", "N">>, <<"PARKWAY", "PKWY">>, <<"PLACE", "PL">>,
       <<"ROAD", "RD">>, <<"SOUTH", "S">>, <<"SOUTHBOUND", "S">>,
       <<"SB", "S">>, <<"SQUARE", "SQ">>, <<"STREET", "ST">>,
       <<"TURNPIKE", "TPKE">>, <<"TRAIL", "TRL">>, <<"WEST", "W">>,
       <<"WESTBOUND", "W">>, <<"WB", "W">> >>

ROUTE_MULTI_TOKENS ==
    << << <<"U", "S", "ROUTE">>, "US" >>, << <<"U", "S", "HWY">>, "US" >>,
       << <<"U", "S", "HIGHWAY">>, "US" >>, << <<"US", "ROUTE">>, "US" >>,
       << <<"US", "HWY">>, "US" >>, << <<"US", "HIGHWAY">>, "US" >>,
       << <<"U", "S">>, "US" >>,
       << <<"STATE", "ROAD">>, "SR" >>, << <<"STATE", "ROUTE">>, "SR" >>,
       << <<"STATE", "RD">>, "SR" >>, << <<"STATE", "HWY">>, "SR" >>,
       << <<"STATE", "HIGHWAY">>, "SR" >>, << <<"ST", "RD">>, "SR" >>,
       << <<"ST", "ROAD">>, "SR" >>, << <<"S", "R">>, "SR" >>,
       << <<"COUNTY", "ROAD">>, "CR" >>, << <<"COUNTY", "RD">>, "CR" >>,
       << <<"CO", "RD">>, "CR" >> >>

DIRECTION_TOKENS ==
    {"N", "S", "E", "W", "NE", "NW", "SE", "SW", "NB", "SB", "EB", "WB"}

ROUTE_PREFIX_TOKENS == {"SR", "US", "I", "CR"}

ROUTE_SUFFIX_TOKENS ==
    {"AVE", "BLVD", "CIR", "CT", "DR", "EXPY", "FWY", "HWY", "JCT", "LN",
     "PKWY", "PL", "RD", "SQ", "ST", "TPKE", "TRL"}

\* table.get(key, default) on a sequence of <<key, value>> pairs
Lookup(table, key, default) ==
    IF \E i \in DOMAIN table : table[i][1] = key
    THEN table[CHOOSE i \in DOMAIN table : table[i][1] = key][2]
    ELSE default

\* str.capitalize()
Capitalize(word) ==
    LET cs == Chars(word) IN
    IF cs = <<>> THEN ""
    ELSE Str(<<UpperChar(cs[1])>> \o LowerCs(Tail(cs)))

\* re.sub(r"[^0-9a-zA-Z]+", " ", text), re.sub(r"\s+", " ", ...).strip()
CleanCrashType(text) ==
    LET cs == Chars(text)
        c1 == SubRuns(cs, Range(cs) \ AlNum, <<" ">>)
    IN StripCs(SubRuns(c1, Space, <<" ">>), Space)

\* the canonical synonym, or every word capitalized
CanonicalCrashType(normalized, words) ==
    StrV(Lookup(CRASH_TYPE_CANONICAL, normalized,
                JoinSp([i \in DOMAIN words |-> Capitalize(words[i])])))

CrashTypeOfCleaned(value, cleaned) ==
    IF cleaned = <<>> THEN value
    ELSE CanonicalCrashType(Str(LowerCs(cleaned)), SplitCs(LowerCs(cleaned)))

StandardizeCrashType(value) ==
    IF ~IsStr(value) THEN value
    ELSE IF Strip(value.s) = "" THEN value
    ELSE CrashTypeOfCleaned(value, CleanCrashType(Strip(value.s)))

\* only the first loop of _strip_direction_tokens
StripDirectionTokensLeading(tokens) ==
    LET RECURSIVE L(_)
        L(ts) == IF ts # <<>> /\ ts[1] \in DIRECTION_TOKENS THEN L(Tail(ts)) ELSE ts
    IN L(tokens)

StripDirectionTokens(tokens) ==
    LET RECURSIVE L(_)
        L(ts) == IF ts # <<>> /\ ts[1] \in DIRECTION_TOKENS THEN L(Tail(ts)) ELSE ts
        RECURSIVE R(_)
        R(ts) == IF ts # <<>> /\ ts[Len(ts)] \in DIRECTION_TOKENS
                 THEN R(SubSeq(ts, 1, Len(ts) - 1)) ELSE ts
    IN R(L(tokens))

\* token.isdigit()
IsNumericToken(token) ==
    token # "" /\ \A i \in 1..Len(token) : SubSeq(token, i, i) \in Digits

IsRouteNumber(tokens) ==
    \/ \E i \in DOMAIN tokens : tokens[i] \in ROUTE_PREFIX_TOKENS
    \/ \E i \in DOMAIN tokens : IsNumericToken(tokens[i])

\* the first entry of _ROUTE_MULTI_TOKENS whose parts start tokens, or 0
MultiMatch(tokens) ==
    LET hits == {k \in DOMAIN ROUTE_MULTI_TOKENS :
                    LET parts == ROUTE_MULTI_TOKENS[k][1] IN
                    /\ Len(tokens) >= Len(parts)
                    /\ SubSeq(tokens, 1, Len(parts)) = parts}
    IN IF hits = {} THEN 0 ELSE CHOOSE k \in hits : \A j \in hits : k <= j

\* the while loop of _standardize_route over the tokens still to read
RECURSIVE Collapse(_)
Collapse(tokens) ==
    IF tokens = <<>> THEN <<>>
    ELSE IF tokens[1] = "IN" /\ Len(tokens) >= 2 /\ IsNumericToken(tokens[2])
    THEN <<"SR">> \o Collapse(Tail(tokens))
    ELSE LET k == MultiMatch(tokens) IN
         IF k # 0
         THEN <<ROUTE_MULTI_TOKENS[k][2]>>
              \o Collapse(SubSeq(tokens, Len(ROUTE_MULTI_TOKENS[k][1]) + 1, Len(tokens)))
         ELSE <<tokens[1]>> \o Collapse(Tail(tokens))

\* re.sub(r"[.,]", ""), re.sub(r"[-/]+", " "), re.sub(r"\s+", " ").strip()
CleanRoute(text) ==
    LET c1 == SelectSeq(Chars(text), LAMBDA c : c \notin {".", ","})
        c2 == SubRuns(c1, {"-", "/"}, <<" ">>)
    IN StripCs(SubRuns(c2, Space, <<" ">>), Space)

\* [_ROUTE_TOKEN_MAP.get(token, token) for token in collapsed]
MapTokens(collapsed) ==
    [i \in DOMAIN collapsed |-> Lookup(ROUTE_TOKEN_MAP, collapsed[i], collapsed[i])]

\* HWY is dropped when a route prefix token is present
DropHwy(mapped) ==
    IF (\E i \in DOMAIN mapped : mapped[i] = "HWY")
       /\ \E i \in DOMAIN mapped : mapped[i] \in ROUTE_PREFIX_TOKENS
    THEN SelectSeq(mapped, LAMBDA t : t # "HWY")
    ELSE mapped

RouteOfCleaned(value, cleaned) ==
    IF cleaned = <<>> THEN value
    ELSE StrV(JoinSp(StripDirectionTokens(
                 DropHwy(MapTokens(Collapse(SplitCs(UpperCs(cleaned))))))))

StandardizeRoute(value) ==
    IF ~IsStr(value) THEN value
    ELSE IF Strip(value.s) = "" THEN value
    ELSE RouteOfCleaned(value, CleanRoute(Strip(value.s)))

-----------------------------------------------------------------------------
(* Name standardizer, pass 2                                               *)

\* the <<base, suffix>> observations _preferred_route_suffixes tallies
SuffixObservations(rows) ==
    { <<JoinSp(SubSeq(ts, 1, Len(ts) - 1)), ts[Len(ts)]>> :
        ts \in { SplitCs(Chars(rows[i][c].s)) :
                   <<i, c>> \in { ic \in (DOMAIN rows) \X ROUTE_COLUMNS :
                                    /\ ic[2] \in DOMAIN rows[ic[1]]
                                    /\ IsStr(rows[ic[1]][ic[2]])
                                    /\ LET t == SplitCs(Chars(rows[ic[1]][ic[2]].s)) IN
                                       /\ t # <<>>
                                       /\ ~IsRouteNumber(t)
                                       /\ t[Len(t)] \in ROUTE_SUFFIX_TOKENS
                                       /\ Len(t) >= 2 } } }

\* _preferred_route_suffixes without the "len(counts) == 1" test
PreferredRouteSuffixesAny(rows) == SuffixObservations(rows)

\* _preferred_route_suffixes: base -> suffix for the bases seen with one suffix,
\* as a set of <<base, suffix>> pairs
PreferredRouteSuffixes(rows) ==
    LET obs == SuffixObservations(rows)
    IN { o \in obs : \A o2 \in obs : o2[1] = o[1] => o2[2] = o[2] }

\* row[column] = f"{base} {suffix}" when preferred knows the base
SuffixedCell(value, base, preferred) ==
    IF \E o \in preferred : o[1] = base
    THEN StrV(base \o " " \o (CHOOSE o \in preferred : o[1] = base)[2])
    ELSE value

ApplySuffixTokens(value, tokens, preferred) ==
    IF tokens = <<>> \/ IsRouteNumber(tokens) THEN value
    ELSE IF tokens[Len(tokens)] \in ROUTE_SUFFIX_TOKENS THEN value
    ELSE SuffixedCell(value, JoinSp(tokens), preferred)

\* what _apply_route_suffixes leaves in one cell
ApplySuffixCell(value, preferred) ==
    IF ~IsStr(value) THEN value
    ELSE ApplySuffixTokens(value, SplitCs(Chars(value.s)), preferred)

\* a pass 2 that goes over every column of a row
SuffixAllColumns(rows, preferred) ==
    IF preferred = {} THEN rows
    ELSE [i \in DOMAIN rows |->
            [c \in DOMAIN rows[i] |-> ApplySuffixCell(rows[i][c], preferred)]]

\* the loops of _apply_route_suffixes over rows and _ROUTE_COLUMNS
SuffixAll(rows, preferred) ==
    IF preferred = {} THEN rows
    ELSE [i \in DOMAIN rows |->
            [c \in DOMAIN rows[i] |->
                IF c \in ROUTE_COLUMNS
                THEN ApplySuffixCell(rows[i][c], preferred)
                ELSE rows[i][c]]]

ApplyRouteSuffixes(rows) == SuffixAll(rows, PreferredRouteSuffixes(rows))

-----------------------------------------------------------------------------
(* RefinementConfig                                                        *)

NormalizeHeaders(seq) == [i \in DOMAIN seq |-> NormalizeHeader(seq[i])]

\* RefinementConfig.normalized(): every column name goes through
\* _normalize_header; fill_defaults becomes a mapping keyed by canonical header
Normalized(raw) ==
    [ required_columns |-> NormalizeHeaders(raw.required_columns),
      date_columns     |-> NormalizeHeaders(raw.date_columns),
      integer_columns  |-> NormalizeHeaders(raw.integer_columns),
      float_columns    |-> NormalizeHeaders(raw.float_columns),
      boolean_columns  |-> NormalizeHeaders(raw.boolean_columns),
      dedupe_on        |-> NormalizeHeaders(raw.dedupe_on),
      fill_defaults    |-> NormalizeRow(raw.fill_defaults) ]

\* RefinementConfig(): every option defaults to empty
EmptyConfig ==
    [ required_columns |-> <<>>, date_columns |-> <<>>, integer_columns |-> <<>>,
      float_columns |-> <<>>, boolean_columns |-> <<>>, dedupe_on |-> <<>>,
      fill_defaults |-> <<>> ]

-----------------------------------------------------------------------------
(* CrashDataRefiner.refine_rows, one row                                   *)

\* _has_required_columns testing "value is None" only
HasRequiredColumnsNoneOnly(row) ==
    \A i \in DOMAIN cfg.required_columns : ~IsNone(Get(row, cfg.required_columns[i]))

\* _has_required_columns
HasRequiredColumns(row) ==
    \A i \in DOMAIN cfg.required_columns :
        ~InNoneOrEmpty(Get(row, cfg.required_columns[i]))

\* the dedupe key built from the first dedupe_on column alone
DedupeKeyFirstColumn(row) == <<Get(row, cfg.dedupe_on[1])>>

\* tuple(row.get(column) for column in self.config.dedupe_on)
DedupeKey(row) == [i \in DOMAIN cfg.dedupe_on |-> Get(row, cfg.dedupe_on[i])]

\* equality of two key tuples, element by element
KeyEq(k1, k2) == Len(k1) = Len(k2) /\ \A i \in DOMAIN k1 : PyEq(k1[i], k2[i])

\* dedupe_key in dedupe_index
SeenKey(key, index) == \E k \in index : KeyEq(k, key)

\* the default test with "current is None" alone
NeedsDefaultNoneOnly(current) == IsNone(current)

\* isinstance(current, str) and not current.strip(), or current is None
NeedsDefault(current) ==
    IsNone(current) \/ (IsStr(current) /\ Strip(current.s) = "")

\* the loop over fill_defaults
FillDefaults(row) ==
    LET d == cfg.fill_defaults IN
    [c \in DOMAIN row \cup {x \in DOMAIN d : NeedsDefault(Get(row, x))} |->
        IF c \in DOMAIN d /\ NeedsDefault(Get(row, c)) THEN d[c] ELSE row[c]]

\* The coercion loops work on the row and the three coercion counters of the
\* call; raised tells that an exception has left the loop.
Work(row, c) ==
    [row |-> row, dates |-> c.coerced_dates, numbers |-> c.coerced_numbers,
     booleans |-> c.coerced_booleans, raised |-> FALSE]

\* the assignments of a date column: the parsed value when it differs from the
\* original and is not None, None when parsing gave None
StoreDate(w, column, original, parsed) ==
    IF ~PyEq(parsed, original) /\ ~IsNone(parsed)
    THEN [w EXCEPT !.row = Put(w.row, column, parsed), !.dates = @ + 1]
    ELSE IF IsNone(parsed)
    THEN [w EXCEPT !.row = Put(w.row, column, NoneV)]
    ELSE w

\* the body of the loop over date_columns
DateStep(w, column) ==
    IF w.raised THEN w
    ELSE IF ParseDateRaises(Get(w.row, column)) THEN [w EXCEPT !.raised = TRUE]
    ELSE StoreDate(w, column, Get(w.row, column), ParseDate(Get(w.row, column)))

\* the assignments without the else branch: a failed coercion leaves the cell
StoreCoercedKeepsOriginal(w, column, original, coerced, counter) ==
    IF w.raised \/ IsNone(coerced) THEN w
    ELSE [w EXCEPT !.row = Put(w.row, column, coerced),
                   ![counter] = IF ~PyEq(coerced, original) THEN @ + 1 ELSE @]

\* the assignments with the counter incremented on every success
StoreCoercedCountsAll(w, column, original, coerced, counter) ==
    IF w.raised THEN w
    ELSE IF ~IsNone(coerced)
    THEN [w EXCEPT !.row = Put(w.row, column, coerced), ![counter] = @ + 1]
    ELSE [w EXCEPT !.row = Put(w.row, column, NoneV)]

\* the assignments of an integer, float or boolean column: the coerced value,
\* counted when it differs from the original, or None
StoreCoerced(w, column, original, coerced, counter) ==
    IF w.raised THEN w
    ELSE IF ~IsNone(coerced)
    THEN [w EXCEPT !.row = Put(w.row, column, coerced),
                   ![counter] = IF ~PyEq(coerced, original) THEN @ + 1 ELSE @]
    ELSE [w EXCEPT !.row = Put(w.row, column, NoneV)]

\* the body of the loop over integer_columns
IntegerStep(w, column) ==
    StoreCoerced(w, column, Get(w.row, column), CoerceInt(Get(w.row, column)),
                 "numbers")

\* the body of the loop over float_columns
FloatStep(w, column) ==
    StoreCoerced(w, column, Get(w.row, column), CoerceFloat(Get(w.row, column)),
                 "numbers")

\* the body of the loop over boolean_columns
BooleanStep(w, column) ==
    StoreCoerced(w, column, Get(w.row, column), CoerceBoolean(Get(w.row, column)),
                 "booleans")

LoopBody(kind, w, column) ==
    CASE kind = "date"    -> DateStep(w, column)
      [] kind = "integer" -> IntegerStep(w, column)
      [] kind = "float"   -> FloatStep(w, column)
      [] kind = "boolean" -> BooleanStep(w, column)

\* one of the four coercion loops: for column in columns: <body>
RECURSIVE ForEach(_, _, _)
ForEach(w, columns, kind) ==
    IF columns = <<>> THEN w
    ELSE ForEach(LoopBody(kind, w, columns[1]), Tail(columns), kind)

\* a standardizer that takes every column for a roadway-name column
StandardizeNamesEveryColumn(row) ==
    [c \in DOMAIN row |->
        IF c \in CRASH_TYPE_COLUMNS THEN StandardizeCrashType(row[c])
        ELSE StandardizeRoute(row[c])]

\* the two standardization loops of pass 1
StandardizeNames(row) ==
    [c \in DOMAIN row |->
        IF c \in CRASH_TYPE_COLUMNS THEN StandardizeCrashType(row[c])
        ELSE IF c \in ROUTE_COLUMNS THEN StandardizeRoute(row[c])
        ELSE row[c]]

Standardized(w) == [w EXCEPT !.row = StandardizeNames(w.row)]

\* the steps with pass 1 of the standardizer ahead of the coercion loops
RefineRowNamesFirst(row, c) ==
    ForEach(
      ForEach(
        ForEach(
          ForEach(Work(StandardizeNames(FillDefaults(row)), c), cfg.date_columns, "date"),
          cfg.integer_columns, "integer"),
        cfg.float_columns, "float"),
      cfg.boolean_columns, "boolean")

\* what refine_rows does to a row that passed both filters: defaults, the four
\* coercion loops, pass 1
RefineRow(row, c) ==
    Standardized(
      ForEach(
        ForEach(
          ForEach(
            ForEach(Work(FillDefaults(row), c), cfg.date_columns, "date"),
            cfg.integer_columns, "integer"),
          cfg.float_columns, "float"),
        cfg.boolean_columns, "boolean"))

NoCounts ==
    [ total_rows |-> 0, kept_rows |-> 0, dropped_missing_required |-> 0,
      dropped_duplicates |-> 0, coerced_dates |-> 0, coerced_numbers |-> 0,
      coerced_booleans |-> 0 ]

NoReport == [returned |-> FALSE]

\* no refine_rows call has returned or raised
NoResult == [returned |-> FALSE, raised |-> FALSE]

\* no point has been asked about; no archive has been opened
NoPoint == <<>>
NoKmz == <<>>

\* no concurrent calls are running; no web run exists and no thread of it
NoCalls == <<>>
NoRun == [status |-> "none"]
NoThread == [pc |-> "none"]
NoArg == [f |-> "none"]
NoRet == [f |-> "none"]
NoHeap == [f |-> "none"]

-----------------------------------------------------------------------------
(* geo.py: parse_coordinate and point_in_polygon.  A PolygonBoundary is    *)
(* [outer, holes]; a ring is a sequence of <<lon, lat>> pairs, here in     *)
(* tenths of a degree.                                                     *)

AllDigits(cs) == cs # <<>> /\ \A i \in DOMAIN cs : cs[i] \in Digits

\* re.fullmatch(r"[-+]?\d+(?:\.\d+)?(?:[eE][-+]?\d+)?", text)
CoordMatch(q) ==
    /\ AllDigits(q.ip)
    /\ q.hasdot => AllDigits(q.fp)
    /\ q.hasexp => AllDigits(Unsigned(q.expo))

CoordOfText(cs) ==
    IF cs = <<>> THEN NoneV
    ELSE IF ~CoordMatch(FloatParts(Unsigned(cs))) THEN NoneV
    ELSE FloatOfStripped(cs)

\* parse_coordinate(value): a float, or None
ParseCoordinate(value) ==
    IF IsNone(value) THEN NoneV
    ELSE CoordOfText(StripCs(Chars(PyStr(value)), Space))

\* a parsed coordinate in tenths of a degree (the inputs have one decimal)
Tenths(v) == v.n * Pow10(1 - v.p)

\* "intersects" for the edge (x1, y1) - (x2, y2).  With dy = y2 - y1 a nonzero
\* multiple of 0.1, lon < (x2 - x1) * (lat - y1) / (dy + 1e-12) + x1 is decided
\* by the sign of dy, and on the edge's line by the sign of lon - x1.
Intersects(lon, lat, x1, y1, x2, y2) ==
    /\ (y1 > lat) # (y2 > lat)
    /\ IF y2 - y1 > 0
       THEN \/ (lon - x1) * (y2 - y1) < (x2 - x1) * (lat - y1)
            \/ (lon - x1) * (y2 - y1) = (x2 - x1) * (lat - y1) /\ lon - x1 < 0
       ELSE \/ (lon - x1) * (y2 - y1) > (x2 - x1) * (lat - y1)
            \/ (lon - x1) * (y2 - y1) = (x2 - x1) * (lat - y1) /\ lon - x1 > 0

\* _point_in_ring: the parity of the edges the ray crosses
PointInRing(lon, lat, ring) ==
    IF Len(ring) < 3 THEN FALSE
    ELSE Cardinality({idx \in 1..(Len(ring) - 1) :
            Intersects(lon, lat, ring[idx][1], ring[idx][2],
                       ring[idx + 1][1], ring[idx + 1][2])}) % 2 = 1

\* PolygonBoundary.bbox takes min() and max() of the outer ring: ValueError on
\* an empty ring
BboxRaises(polygon) == polygon.outer = <<>>

OutsideBbox(lon, lat, outer) ==
    \/ \A i \in DOMAIN outer : lon < outer[i][1]
    \/ \A i \in DOMAIN outer : lon > outer[i][1]
    \/ \A i \in DOMAIN outer : lat < outer[i][2]
    \/ \A i \in DOMAIN outer : lat > outer[i][2]

\* point_in_polygon without the loop over polygon.holes
PointInPolygonNoHoles(lon, lat, polygon) ==
    /\ ~OutsideBbox(lon, lat, polygon.outer)
    /\ PointInRing(lon, lat, polygon.outer)

\* point_in_polygon, for a polygon whose outer ring is not empty
PointInPolygon(lon, lat, polygon) ==
    /\ ~OutsideBbox(lon, lat, polygon.outer)
    /\ PointInRing(lon, lat, polygon.outer)
    /\ \A h \in DOMAIN polygon.holes : ~PointInRing(lon, lat, polygon.holes[h])

-----------------------------------------------------------------------------
(* geo.py: the boundary loader.  An archive is the sequence of its members *)
(* [name, doc]; a document is [wellformed, polygons], polygons being the   *)
(* Polygon elements of the markup in document order; a Polygon element is  *)
(* [outer, inner]: its first outerBoundaryIs element and the sequence of   *)
(* its innerBoundaryIs elements; a ring element is [tag, text] with tag    *)
(* "absent" (no such element), "nocoords" (no coordinates child, or one    *)
(* without text) or "coords" (coordinates with the given text).            *)

\* token.split(","), as character sequences
RECURSIVE SplitComma(_)
SplitComma(cs) ==
    IF FirstIn(cs, {","}) = 0 THEN <<cs>>
    ELSE <<SubSeq(cs, 1, FirstIn(cs, {","}) - 1)>>
            \o SplitComma(SubSeq(cs, FirstIn(cs, {","}) + 1, Len(cs)))

\* the body of the loop of _parse_coordinates for the parts of one token:
\* the coordinates it appends
ParseParts(parts) ==
    IF Len(parts) < 2 THEN <<>>
    ELSE IF ~IsFloatText(Str(parts[1])) \/ ~IsFloatText(Str(parts[2])) THEN <<>>
    ELSE << <<FloatOfText(Str(parts[1])), FloatOfText(Str(parts[2]))>> >>

\* the loop of _parse_coordinates over the first n tokens
RECURSIVE ParseTokens(_, _)
ParseTokens(tokens, n) ==
    IF n = 0 THEN <<>>
    ELSE ParseTokens(tokens, n - 1) \o ParseParts(SplitComma(Chars(tokens[n])))

\* coords[0] != coords[-1]: tuples compare their items by identity, then by ==
EndsOnFirst(coords) ==
    \/ Len(coords) = 1
    \/ /\ PyEq(coords[1][1], coords[Len(coords)][1])
       /\ PyEq(coords[1][2], coords[Len(coords)][2])

\* _parse_coordinates without "coords.append(coords[0])"
CloseRingNever(coords) == coords

\* "if coords and coords[0] != coords[-1]: coords.append(coords[0])"
CloseRing(coords) ==
    IF coords # <<>> /\ ~EndsOnFirst(coords) THEN Append(coords, coords[1]) ELSE coords

\* _parse_coordinates(text)
ParseCoordinates(text) ==
    CloseRing(ParseTokens(SplitCs(Chars(text)), Len(SplitCs(Chars(text)))))

\* _parse_ring(polygon, "outerBoundaryIs", ns) on the polygon's ring element
ParseRing(ring) ==
    IF ring.tag = "absent" THEN <<>>
    ELSE IF ring.tag = "nocoords" \/ ring.text = "" THEN <<>>
    ELSE ParseCoordinates(ring.text)

\* _parse_holes(polygon, ns) over the first n innerBoundaryIs elements
RECURSIVE ParseHoles(_, _)
ParseHoles(inner, n) ==
    IF n = 0 THEN <<>>
    ELSE IF inner[n].tag = "nocoords" \/ inner[n].text = "" THEN ParseHoles(inner, n - 1)
    ELSE Append(ParseHoles(inner, n - 1), ParseCoordinates(inner[n].text))

\* [_ring for _ring in holes if _ring]
RECURSIVE NonEmptyRings(_)
NonEmptyRings(rings) ==
    IF rings = <<>> THEN <<>>
    ELSE IF Head(rings) = <<>> THEN NonEmptyRings(Tail(rings))
    ELSE <<Head(rings)>> \o NonEmptyRings(Tail(rings))

\* the loop of _parse_kml_polygons that counts every Polygon element
RECURSIVE BoundariesOfAll(_, _)
BoundariesOfAll(polygons, n) ==
    IF n = 0 THEN <<>>
    ELSE Append(BoundariesOfAll(polygons, n - 1),
                [outer |-> ParseRing(polygons[n].outer),
                 holes |-> NonEmptyRings(ParseHoles(polygons[n].inner,
                                                    Len(polygons[n].inner)))])

\* the loop of _parse_kml_polygons over the first n Polygon elements
RECURSIVE BoundariesOf(_, _)
BoundariesOf(polygons, n) ==
    IF n = 0 THEN <<>>
    ELSE IF ParseRing(polygons[n].outer) = <<>> THEN BoundariesOf(polygons, n - 1)
    ELSE Append(BoundariesOf(polygons, n - 1),
                [outer |-> ParseRing(polygons[n].outer),
                 holes |-> NonEmptyRings(ParseHoles(polygons[n].inner,
                                                    Len(polygons[n].inner)))])

\* name.lower().endswith(".kml")
EndsWithKml(name) ==
    /\ Len(name) >= 4
    /\ LowerCs(Chars(SubSeq(name, Len(name) - 3, Len(name)))) = Chars(".kml")

\* candidates: the members whose name ends with .kml, in archive order
RECURSIVE Candidates(_)
Candidates(archive) ==
    IF archive = <<>> THEN <<>>
    ELSE IF EndsWithKml(Head(archive).name)
    THEN <<Head(archive)>> \o Candidates(Tail(archive))
    ELSE Candidates(Tail(archive))

Raised(error) == [returned |-> FALSE, raised |-> TRUE, error |-> error]

\* load_kmz_polygon from the polygons parsed out of the markup
PolygonOf(polygons) ==
    IF polygons = <<>> THEN Raised("No polygon found in KMZ.")
    ELSE IF Len(polygons) > 1
    THEN Raised("KMZ contains multiple polygons; only one is supported.")
    ELSE [returned |-> TRUE, raised |-> FALSE, value |-> polygons[1]]

\* _parse_kml_polygons(kml_text), then the checks of load_kmz_polygon
LoadDocument(doc) ==
    IF ~doc.wellformed THEN Raised("ParseError")
    ELSE PolygonOf(BoundariesOf(doc.polygons, Len(doc.polygons)))

\* load_kmz_polygon(path) for the archive at path
LoadKmzPolygon(archive) ==
    IF Candidates(archive) = <<>> THEN Raised("KMZ does not contain a KML file.")
    ELSE LoadDocument(Candidates(archive)[1].doc)

-----------------------------------------------------------------------------
(* The callers' inputs: a few families of configuration and raw rows.  Each *)
(* family holds the rows the caller may pass, in any order and number.      *)

S(text) == StrV(text)

RawConfigOf(name) ==
    CASE name = "district" ->
           [EmptyConfig EXCEPT
              !.required_columns = <<"Crash ID">>,
              !.integer_columns = <<"Fatalities">>,
              !.dedupe_on = <<"Crash ID">>]
      [] name = "filter" ->
           [EmptyConfig EXCEPT
              !.required_columns = <<"Crash ID", "Crash Date">>,
              !.date_columns = <<"Crash Date">>,
              !.dedupe_on = <<"Crash ID">>,
              !.fill_defaults = << <<"Crash ID", S("X")>>, <<"City", S("Unknown")>> >>]
      [] name = "dedupe" ->
           [EmptyConfig EXCEPT
              !.dedupe_on = <<"ID", "Unit">>,
              !.fill_defaults = << <<"Id", S("1")>> >>]
      [] name = "plain" -> EmptyConfig
      [] name = "coerce" ->
           [EmptyConfig EXCEPT
              !.integer_columns = <<"Fatalities">>,
              !.float_columns = <<"Serious Injuries">>,
              !.boolean_columns = <<"Hit and Run">>,
              !.fill_defaults = << <<"Fatalities", S(" 7 ")>>,
                                   <<"Serious Injuries", IntV(9)>>,
                                   <<"Hit and Run", S("N")>> >>]
      [] name = "dates" ->
           [EmptyConfig EXCEPT !.date_columns = <<"Crash Date">>]
      [] name = "order" ->
           [EmptyConfig EXCEPT
              !.required_columns = <<"Key">>,
              !.dedupe_on = <<"Tag">>,
              !.date_columns = <<"Route", "When">>,
              !.integer_columns = <<"Count">>,
              !.fill_defaults = << <<"Key", S("K")>>, <<"Tag", S("T")>>,
                                   <<"Count", S(" 7 ")>>,
                                   <<"Route", S("N Main Street")>>,
                                   <<"Crash Type", S("rear-end")>>,
                                   <<"When", S("01/01/2000")>> >>]
      [] name = "names" ->
           [EmptyConfig EXCEPT
              !.required_columns = <<"Key">>,
              !.dedupe_on = <<"Id">>]

DedupeRows ==
    { << <<"ID", IntV(1)>>, <<"Unit", S("A")>> >>,
      << <<"ID", FloatV(1, 0)>>, <<"Unit", S("A")>> >>,
      << <<"ID", BoolV(TRUE)>>, <<"Unit", S("A")>> >>,
      << <<"ID", S("1")>>, <<"Unit", S("A")>> >>,
      << <<"ID", IntV(1)>>, <<"Unit", S("B")>> >>,
      << <<"ID", NoneV>>, <<"Unit", S("A")>> >>,
      << <<"Unit", S("A")>> >>,
      << <<"ID", S("")>>, <<"Unit", S("A")>> >> }

RowsOf(name) ==
    CASE name = "filter" ->
           { << <<"Crash ID", S("1001")>>, <<"Crash Date", S("2024-01-04")>>,
                <<"City", S("Springfield")>> >>,
             << <<"Crash ID", S("1002")>>, <<"Crash Date", S("01/05/2024")>>,
                <<"City", S("")>> >>,
             << <<"Crash ID", S("")>>, <<"Crash Date", S("2024-01-07")>> >>,
             << <<"crash_id", NoneV>>, <<"Crash Date", S("2024-01-07")>> >>,
             << <<"Crash Date", S("2024-01-07")>> >>,
             << <<"CRASH-ID ", S("1001")>>, <<"crash date", S("2024-01-08")>> >>,
             << <<"Crash ID", S("1001")>>, <<"Crash Date", S("")>> >>,
             << <<"Crash ID", S(" ")>>, <<"Crash Date", S("2024-01-09")>> >> }
      [] name = "dedupe" -> DedupeRows
      [] name = "plain" -> DedupeRows
      [] name = "coerce" ->
           { << <<"Fatalities", S(" 12 ")>>, <<"Serious Injuries", S("1.50")>>,
                <<"Hit and Run", S(" Yes ")>> >>,
             << <<"Fatalities", S("1.5")>>, <<"Serious Injuries", S("x")>>,
                <<"Hit and Run", S("no")>> >>,
             << <<"Fatalities", S("twelve")>>, <<"Serious Injuries", IntV(3)>>,
                <<"Hit and Run", S("maybe")>> >>,
             << <<"Fatalities", IntV(7)>>, <<"Serious Injuries", FloatV(25, 1)>>,
                <<"Hit and Run", IntV(1)>> >>,
             << <<"Fatalities", FloatV(15, 1)>>, <<"Serious Injuries", S(".5")>>,
                <<"Hit and Run", BoolV(TRUE)>> >>,
             << <<"Fatalities", BoolV(TRUE)>>, <<"Serious Injuries", S("1e2")>>,
                <<"Hit and Run", FloatV(1, 0)>> >>,
             << <<"Fatalities", S("")>>, <<"Serious Injuries", NoneV>> >>,
             << <<"Fatalities", S("-1_0")>>, <<"Serious Injuries", S("inf")>>,
                <<"Hit and Run", S("F")>> >> }
      [] name = "dates" ->
           { << <<"Crash Date", S("2024-01-04")>> >>,
             << <<"Crash Date", S("2024-01-04 10:30:00")>> >>,
             << <<"Crash Date", S("01/05/2024")>> >>,
             << <<"Crash Date", S("2024-01-05T10:00")>> >>,
             << <<"Crash Date", S("5-jan-2024")>> >>,
             << <<"Crash Date", S("1/5/2024 7:05")>> >>,
             << <<"Crash Date", S("13/45/2024")>> >>,
             << <<"Crash Date", S("unknown")>> >>,
             << <<"Crash Date", S(" n/a ")>> >>,
             << <<"Crash Date", S("  ")>> >>,
             << <<"Crash Date", NoneV>> >>,
             << <<"Crash Date", IntV(20240104)>> >> }
      [] name = "order" ->
           { << <<"Key", S("a")>>, <<"Tag", NoneV>>, <<"Route", S("01/05/2024")>>,
                <<"Count", S("")>> >>,
             << <<"Key", S("a")>>, <<"Tag", S("")>>, <<"Route", S("")>>,
                <<"Count", S("3")>> >>,
             << <<"Key", S("")>>, <<"Tag", S("x")>>, <<"Route", S("Main St")>> >>,
             << <<"Key", S("a")>>, <<"Tag", S("T")>>, <<"Route", NoneV>>,
                <<"Crash Type", S(" ")>>, <<"When", S(" ")>> >>,
             << <<"Key", S("a")>>, <<"Tag", S("x")>>, <<"Route", S("st. rd. 5")>>,
                <<"Crash Type", S("head-on")>>, <<"When", S("2024-01-04")>> >> }
      [] name = "names" ->
           { << <<"Key", S("k")>>, <<"Id", S("1")>>, <<"Road Name", S("Broad")>> >>,
             << <<"Key", S("k")>>, <<"Id", S("2")>>, <<"Road Name", S("Broad St")>>,
                <<"Route", S("IN 127")>> >>,
             << <<"Key", S("k")>>, <<"Id", S("3")>>,
                <<"Road Name", S("W Broad Avenue")>>, <<"Route", S("Broad St")>> >>,
             << <<"Key", S("")>>, <<"Id", S("4")>>, <<"Road Name", S("Broad Ave")>> >>,
             << <<"Key", S("k")>>, <<"Id", S("2")>>, <<"Road Name", S("Broad Ln")>> >>,
             << <<"Key", S("k")>>, <<"Id", S("6")>>, <<"Road Name", S("Street Road")>>,
                <<"Crash Type", S("rear-end")>> >>,
             << <<"Key", S("k")>>, <<"Id", S("7")>>, <<"Road Name", S("Main")>>,
                <<"Intersecting Road Name", S("broad")>> >>,
             << <<"Key", S("k")>>, <<"Id", S("8")>>, <<"Road Name", S("State Road 4")>>,
                <<"Route", S("Main Street")>> >> }

RefineScenarios == {"filter", "dedupe", "plain", "coerce", "dates", "order", "names"}

\* The boundary filter's callers: a boundary, the two column arguments, rows.
BoundaryScenarios == {"square", "holed"}

BoundaryOf(name) ==
    CASE name \in {"square", "district"} ->
           [outer |-> << <<-10, 0>>, <<10, 0>>, <<10, 20>>, <<-10, 20>>, <<-10, 0>> >>,
            holes |-> <<>>]
      [] name = "holed" ->
           [outer |-> << <<0, 0>>, <<40, 0>>, <<40, 40>>, <<0, 40>>, <<0, 0>> >>,
            holes |-> << << <<10, 10>>, <<30, 10>>, <<30, 30>>, <<10, 30>>,
                            <<10, 10>> >> >>]

LatitudeArg(name) == IF name \in {"square", "district"} THEN "Latitude" ELSE " LAT "
LongitudeArg(name) == IF name \in {"square", "district"} THEN "Longitude" ELSE "lon"

BoundaryRowsOf(name) ==
    CASE name = "district" ->
           { << <<"Tag", S("a")>>, <<"Crash ID", S("1")>>, <<"Latitude", S("1")>>,
                <<"Longitude", S("0")>>, <<"Fatalities", S("2")>>,
                <<"Road Name", S("Broad")>> >>,
             << <<"Tag", S("b")>>, <<"Crash ID", S("2")>>, <<"Latitude", S("3")>>,
                <<"Longitude", S("0")>>, <<"Fatalities", S("3")>>,
                <<"Road Name", S("Broad St")>> >>,
             << <<"Tag", S("c")>>, <<"Crash ID", S("1")>>, <<"Latitude", S("")>>,
                <<"Longitude", S("0")>>, <<"Fatalities", S("4")>>,
                <<"Road Name", S("Broad Ave")>> >>,
             << <<"Tag", S("d")>>, <<"Crash ID", S("1")>>, <<"Latitude", S("1")>>,
                <<"Longitude", S("0.5")>>, <<"Road Name", S("Main St")>> >>,
             << <<"Tag", S("e")>>, <<"Crash ID", S("")>>, <<"Latitude", S("1")>>,
                <<"Longitude", S("0")>>, <<"Fatalities", S("5")>> >>,
             << <<"Tag", S("f")>>, <<"Crash ID", S("3")>>, <<"Latitude", S("1")>>,
                <<"Longitude", S("0")>>, <<"Road Name", S("Broad St")>> >>,
             << <<"Tag", S("g")>>, <<"Crash ID", S("2")>>, <<"Latitude", S("0.5")>>,
                <<"Longitude", S("0")>>, <<"Fatalities", IntV(1)>>,
                <<"Road Name", S("Main")>> >>,
             << <<"Tag", S("h")>>, <<"Crash ID", S("4")>>, <<"Latitude", S("north")>>,
                <<"Longitude", S("0")>>, <<"Fatalities", S("x")>>,
                <<"Road Name", S("Main Ln")>> >> }
      [] name = "square" ->
           { << <<"Latitude", S("1")>>, <<"Longitude", S("0")>> >>,
             << <<"Latitude", S("3")>>, <<"Longitude", S("0")>> >>,
             << <<"Latitude", S("")>>, <<"Longitude", S("0")>> >>,
             << <<"Latitude", S("1.0")>>, <<"Longitude", NoneV>> >>,
             << <<"Longitude", S("0")>> >>,
             << <<"Latitude", S("north")>>, <<"Longitude", S("0")>> >>,
             << <<"Latitude", S("1,5")>>, <<"Longitude", S("0")>> >>,
             << <<"latitude ", IntV(1)>>, <<"LONGITUDE", FloatV(5, 1)>> >>,
             << <<"Latitude", BoolV(TRUE)>>, <<"Longitude", S("0")>> >>,
             << <<"Latitude", S(" +1e0 ")>>, <<"Longitude", S("-0.5")>> >>,
             << <<"Latitude", S("0")>>, <<"Longitude", S("0")>> >>,
             << <<"Latitude", S("1")>>, <<"Longitude", S("1.5")>> >> }
      [] name = "holed" ->
           { << <<"lat", S("2")>>, <<"lon", S("2")>> >>,
             << <<"lat", S("0.5")>>, <<"lon", S("0.5")>> >>,
             << <<"lat", S("3.5")>>, <<"lon", S("2")>> >>,
             << <<"lat", S("5")>>, <<"lon", S("5")>> >>,
             << <<"lat", S("1")>>, <<"lon", S("1")>> >>,
             << <<"lat", S("3")>>, <<"lon", S("3")>> >>,
             << <<"lat", S("2")>>, <<"lon", S("4")>> >>,
             << <<"lat", S("2")>>, <<"lon", S("0")>> >>,
             << <<"lat", S("2")>>, <<"lon", S(".5")>> >>,
             << <<"lat", S("2")>> >> }

-----------------------------------------------------------------------------
(* The state machine of one refine_rows call on a refiner.                 *)

NoBoundary == [outer |-> <<>>, holes |-> <<>>]

\* CrashDataRefiner(config), at the entry of refine_rows
Init ==
    /\ scen \in RefineScenarios
    /\ cfg = Normalized(RawConfigOf(scen))
    /\ pc = "loop"
    /\ inrows = <<>>
    /\ fate = <<>>
    /\ refined_rows = <<>>
    /\ dedupe_index = {}
    /\ cnt = NoCounts
    /\ report = NoReport
    /\ boundary = NoBoundary
    /\ included = <<>>
    /\ excluded = <<>>
    /\ invalid = <<>>
    /\ breport = NoReport
    /\ second = NoResult
    /\ point = NoPoint
    /\ kmz = NoKmz
    /\ result = NoResult
    /\ calls = NoCalls
    /\ run = NoRun
    /\ worker = NoThread
    /\ client = NoThread
    /\ arg = NoArg
    /\ ret = NoRet
    /\ heap = NoHeap

\* the counters after a row is dropped for a missing required column
DropMissing(c) ==
    [c EXCEPT !.total_rows = @ + 1, !.dropped_missing_required = @ + 1]

\* DropDuplicate without "dropped_duplicates += 1"
DropDuplicateUncounted(c) == [c EXCEPT !.total_rows = @ + 1]

\* the counters after a row is dropped as a duplicate
DropDuplicate(c) ==
    [c EXCEPT !.total_rows = @ + 1, !.dropped_duplicates = @ + 1]

\* the counters after a row is kept, w being the result of its coercion loops
Keep(c, w) ==
    [c EXCEPT !.total_rows = @ + 1, !.kept_rows = @ + 1,
              !.coerced_dates = w.dates, !.coerced_numbers = w.numbers,
              !.coerced_booleans = w.booleans]

\* dedupe_index.add(dedupe_key), when dedupe_on is configured
\* a loop that never registers a key
AddKeyNever(index, row) == index

\* dedupe_index.add(dedupe_key)
AddKey(index, row) ==
    IF cfg.dedupe_on # <<>> THEN index \cup {DedupeKey(row)} ELSE index

\* a streaming loop body: pass 2 runs as each kept row is appended
KeepRowStreaming(row, w) ==
    IF w.raised
    THEN /\ pc' = "raised"
         /\ fate' = Append(fate, "raised")
         /\ UNCHANGED <<cnt, refined_rows, dedupe_index>>
    ELSE /\ cnt' = Keep(cnt, w)
         /\ fate' = Append(fate, "kept")
         /\ refined_rows' = ApplyRouteSuffixes(Append(refined_rows, w.row))
         /\ dedupe_index' = AddKey(dedupe_index, row)
         /\ pc' = pc

\* a row that passed both filters: kept, unless a coercion raised
KeepRow(row, w) ==
    IF w.raised
    THEN /\ pc' = "raised"
         /\ fate' = Append(fate, "raised")
         /\ UNCHANGED <<cnt, refined_rows, dedupe_index>>
    ELSE /\ cnt' = Keep(cnt, w)
         /\ fate' = Append(fate, "kept")
         /\ refined_rows' = Append(refined_rows, w.row)
         /\ dedupe_index' = AddKey(dedupe_index, row)
         /\ pc' = pc

\* the body of "for raw_row in rows" on the row with normalized headers
\* a loop body that registers the dedupe key ahead of the required-field check
LoopRowKeyFirst(row) ==
    IF ~HasRequiredColumns(row)
    THEN /\ cnt' = DropMissing(cnt)
         /\ fate' = Append(fate, "missing")
         /\ dedupe_index' = AddKey(dedupe_index, row)
         /\ UNCHANGED <<pc, refined_rows>>
    ELSE IF cfg.dedupe_on # <<>> /\ SeenKey(DedupeKey(row), dedupe_index)
    THEN /\ cnt' = DropDuplicate(cnt)
         /\ fate' = Append(fate, "duplicate")
         /\ UNCHANGED <<pc, refined_rows, dedupe_index>>
    ELSE KeepRow(row, RefineRow(row, cnt))

LoopRow(row) ==
    IF ~HasRequiredColumns(row)
    THEN /\ cnt' = DropMissing(cnt)
         /\ fate' = Append(fate, "missing")
         /\ UNCHANGED <<pc, refined_rows, dedupe_index>>
    ELSE IF cfg.dedupe_on # <<>> /\ SeenKey(DedupeKey(row), dedupe_index)
    THEN /\ cnt' = DropDuplicate(cnt)
         /\ fate' = Append(fate, "duplicate")
         /\ UNCHANGED <<pc, refined_rows, dedupe_index>>
    ELSE KeepRow(row, RefineRow(row, cnt))

\* one iteration of "for raw_row in rows" (normalize_headers = True)
ProcessRow(raw) ==
    /\ pc = "loop"
    /\ Len(inrows) < MaxRows
    /\ inrows' = Append(inrows, raw)
    /\ LoopRow(NormalizeRow(raw))
    /\ UNCHANGED <<cfg, scen, report, boundary, included, excluded, invalid, breport,
                   second,
                   point, kmz, result,
                   calls, run, worker, client,
          arg, ret, heap>>

\* the input is exhausted: pass 2, then the report is built and returned
Finish ==
    /\ pc = "loop"
    /\ refined_rows' = ApplyRouteSuffixes(refined_rows)
    /\ report' = [returned |-> TRUE] @@ cnt
    /\ pc' = "done"
    /\ UNCHANGED <<cfg, scen, inrows, fate, dedupe_index, cnt,
                   boundary, included, excluded, invalid, breport, second,
                   point, kmz, result,
                   calls, run, worker, client,
          arg, ret, heap>>

\* A whole refine_rows call on a list of rows, as a function of the list: the
\* locals of the call are [rows, index, c, raised].  The locals at entry:
FreshCall == [rows |-> <<>>, index |-> {}, c |-> NoCounts, raised |-> FALSE]

\* the end of the loop body for a row that passed both filters
KeptInCall(st, row, w) ==
    IF w.raised THEN [st EXCEPT !.raised = TRUE]
    ELSE [rows |-> Append(st.rows, w.row), index |-> AddKey(st.index, row),
          c |-> Keep(st.c, w), raised |-> FALSE]

\* the body of "for raw_row in rows" on the locals st
RowInCall(st, row) ==
    IF st.raised THEN st
    ELSE IF ~HasRequiredColumns(row) THEN [st EXCEPT !.c = DropMissing(@)]
    ELSE IF cfg.dedupe_on # <<>> /\ SeenKey(DedupeKey(row), st.index)
    THEN [st EXCEPT !.c = DropDuplicate(@)]
    ELSE KeptInCall(st, row, RefineRow(row, st.c))

\* the locals after the first n rows
RECURSIVE LoopInCall(_, _)
LoopInCall(rows, n) ==
    IF n = 0 THEN FreshCall ELSE RowInCall(LoopInCall(rows, n - 1), rows[n])

\* pass 2 and the report, or the exception
ReturnOfCall(st) ==
    IF st.raised THEN [returned |-> FALSE, raised |-> TRUE]
    ELSE [returned |-> TRUE, raised |-> FALSE,
          rows |-> ApplyRouteSuffixes(st.rows), report |-> st.c]

\* _normalize_row on a row that is a mapping
NormalizeKeys(row) ==
    [h \in {NormalizeHeader(k) : k \in DOMAIN row} |->
        row[CHOOSE k \in DOMAIN row : NormalizeHeader(k) = h]]

\* refine_rows(rows) with normalize_headers = True
RefineRows(rows) ==
    ReturnOfCall(LoopInCall([i \in DOMAIN rows |-> NormalizeKeys(rows[i])], Len(rows)))

\* the caller passes the rows refine_rows returned to refine_rows again
RefineAgain ==
    /\ pc = "done"
    /\ second' = RefineRows(refined_rows)
    /\ pc' = "again"
    /\ UNCHANGED <<cfg, scen, inrows, fate, refined_rows, dedupe_index, cnt, report,
                   boundary, included, excluded, invalid, breport,
                   point, kmz, result,
                   calls, run, worker, client,
          arg, ret, heap>>

Next ==
    \/ \E raw \in RowsOf(scen) : ProcessRow(raw)
    \/ Finish
    \/ RefineAgain

Spec == Init /\ [][Next]_vars

-----------------------------------------------------------------------------
(* The state machine of one filter_rows_by_boundary call.                  *)

InitBoundary ==
    /\ scen \in BoundaryScenarios
    /\ cfg = Normalized(EmptyConfig)
    /\ pc = "filter"
    /\ inrows = <<>>
    /\ fate = <<>>
    /\ refined_rows = <<>>
    /\ dedupe_index = {}
    /\ cnt = [total_rows |-> 0]
    /\ report = NoReport
    /\ boundary = BoundaryOf(scen)
    /\ included = <<>>
    /\ excluded = <<>>
    /\ invalid = <<>>
    /\ breport = NoReport
    /\ second = NoResult
    /\ point = NoPoint
    /\ kmz = NoKmz
    /\ result = NoResult
    /\ calls = NoCalls
    /\ run = NoRun
    /\ worker = NoThread
    /\ client = NoThread
    /\ arg = NoArg
    /\ ret = NoRet
    /\ heap = NoHeap

\* the classification with "lat is None and lon is None"
ClassifyBothMissing(row, lat, lon) ==
    IF IsNone(lat) /\ IsNone(lon)
    THEN /\ invalid' = Append(invalid, row)
         /\ fate' = Append(fate, "invalid")
         /\ UNCHANGED <<pc, included, excluded>>
    ELSE IF PointInPolygon(Tenths(lon), Tenths(lat), boundary)
    THEN /\ included' = Append(included, row)
         /\ fate' = Append(fate, "included")
         /\ UNCHANGED <<pc, excluded, invalid>>
    ELSE /\ excluded' = Append(excluded, row)
         /\ fate' = Append(fate, "excluded")
         /\ UNCHANGED <<pc, included, invalid>>

\* the classification of a row whose coordinates parsed to lat and lon
Classify(row, lat, lon) ==
    IF IsNone(lat) \/ IsNone(lon)
    THEN /\ invalid' = Append(invalid, row)
         /\ fate' = Append(fate, "invalid")
         /\ UNCHANGED <<pc, included, excluded>>
    ELSE IF BboxRaises(boundary)
    THEN /\ pc' = "raised"
         /\ fate' = Append(fate, "raised")
         /\ UNCHANGED <<included, excluded, invalid>>
    ELSE IF PointInPolygon(Tenths(lon), Tenths(lat), boundary)
    THEN /\ included' = Append(included, row)
         /\ fate' = Append(fate, "included")
         /\ UNCHANGED <<pc, excluded, invalid>>
    ELSE /\ excluded' = Append(excluded, row)
         /\ fate' = Append(fate, "excluded")
         /\ UNCHANGED <<pc, included, invalid>>

\* the body of the loop on the row with normalized headers
BoundaryLoopRow(row, lat_column, lon_column) ==
    Classify(row, ParseCoordinate(Get(row, lat_column)),
             ParseCoordinate(Get(row, lon_column)))

\* one iteration of the loop of filter_rows_by_boundary (normalize_headers = True)
FilterRow(raw) ==
    /\ pc = "filter"
    /\ Len(inrows) < MaxRows
    /\ inrows' = Append(inrows, raw)
    /\ cnt' = [cnt EXCEPT !.total_rows = @ + 1]
    /\ BoundaryLoopRow(NormalizeRow(raw), NormalizeHeader(LatitudeArg(scen)),
                       NormalizeHeader(LongitudeArg(scen)))
    /\ UNCHANGED <<cfg, scen, refined_rows, dedupe_index, report, boundary, breport,
                   second,
                   point, kmz, result,
                   calls, run, worker, client,
          arg, ret, heap>>

\* the input is exhausted: the BoundaryFilterReport is built and returned
FilterFinish ==
    /\ pc = "filter"
    /\ breport' = [returned |-> TRUE, total_rows |-> cnt.total_rows,
                   included_rows |-> Len(included), excluded_rows |-> Len(excluded),
                   invalid_rows |-> Len(invalid)]
    /\ pc' = "filtered"
    /\ UNCHANGED <<cfg, scen, inrows, fate, refined_rows, dedupe_index, cnt, report,
                   boundary, included, excluded, invalid, second,
                   point, kmz, result,
                   calls, run, worker, client,
          arg, ret, heap>>

NextBoundary ==
    \/ \E raw \in BoundaryRowsOf(scen) : FilterRow(raw)
    \/ FilterFinish

SpecBoundary == InitBoundary /\ [][NextBoundary]_vars

-----------------------------------------------------------------------------
(* The state machine of one refine_rows_with_boundary call: the loop of    *)
(* the boundary filter, then refine_rows over the included bucket.         *)

WithBoundaryScenarios == {"district"}

InitWithBoundary ==
    /\ scen \in WithBoundaryScenarios
    /\ cfg = Normalized(RawConfigOf(scen))
    /\ pc = "filter"
    /\ inrows = <<>>
    /\ fate = <<>>
    /\ refined_rows = <<>>
    /\ dedupe_index = {}
    /\ cnt = [total_rows |-> 0]
    /\ report = NoReport
    /\ boundary = BoundaryOf(scen)
    /\ included = <<>>
    /\ excluded = <<>>
    /\ invalid = <<>>
    /\ breport = NoReport
    /\ second = NoResult
    /\ point = NoPoint
    /\ kmz = NoKmz
    /\ result = NoResult
    /\ calls = NoCalls
    /\ run = NoRun
    /\ worker = NoThread
    /\ client = NoThread
    /\ arg = NoArg
    /\ ret = NoRet
    /\ heap = NoHeap

\* a caller that hands every bucket of the filter to refine_rows
RefinedBucketAll == included \o excluded \o invalid

\* the rows handed to refine_rows(..., normalize_headers=False)
RefinedBucket == included

\* the return of refine_rows_with_boundary, st being the locals of its
\* refine_rows call at the end of the loop
ReturnWithBoundary(st) ==
    IF st.raised
    THEN /\ pc' = "raised"
         /\ UNCHANGED <<refined_rows, report, cnt, dedupe_index, breport>>
    ELSE /\ refined_rows' = ApplyRouteSuffixes(st.rows)
         /\ report' = [returned |-> TRUE] @@ st.c
         /\ cnt' = st.c
         /\ dedupe_index' = st.index
         /\ breport' = [returned |-> TRUE, total_rows |-> cnt.total_rows,
                        included_rows |-> Len(included),
                        excluded_rows |-> Len(excluded),
                        invalid_rows |-> Len(invalid)]
         /\ pc' = "done"

\* the input is exhausted: the filter returns its buckets and report, the
\* included bucket is refined, and the four results are returned
RefineIncluded ==
    /\ pc = "filter"
    /\ ReturnWithBoundary(LoopInCall(RefinedBucket, Len(RefinedBucket)))
    /\ UNCHANGED <<cfg, scen, inrows, fate, boundary, included, excluded, invalid,
                   second,
                   point, kmz, result,
                   calls, run, worker, client,
          arg, ret, heap>>

NextWithBoundary ==
    \/ \E raw \in BoundaryRowsOf(scen) : FilterRow(raw)
    \/ RefineIncluded

SpecWithBoundary == InitWithBoundary /\ [][NextWithBoundary]_vars

-----------------------------------------------------------------------------
(* The state machine of point_in_polygon calls on one PolygonBoundary.     *)
(* Coordinates are in tenths of a degree.                                  *)

Square == << <<0, 0>>, <<40, 0>>, <<40, 40>>, <<0, 40>>, <<0, 0>> >>
Inner == << <<10, 10>>, <<30, 10>>, <<30, 30>>, <<10, 30>>, <<10, 10>> >>
Triangle == << <<0, 0>>, <<40, 0>>, <<20, 40>>, <<0, 0>> >>
Corner == << <<20, 20>>, <<45, 20>>, <<45, 45>>, <<20, 45>>, <<20, 20>> >>

\* PolygonBoundary(outer, holes) as a caller can construct it
Polygons ==
    { [outer |-> Square, holes |-> <<>>],
      [outer |-> Square, holes |-> <<Inner>>],
      [outer |-> Square, holes |-> << <<>>, << <<10, 10>>, <<30, 30>> >>, Inner >>],
      [outer |-> Square, holes |-> <<Corner>>],
      [outer |-> Triangle, holes |-> << << <<15, 5>>, <<25, 5>>, <<20, 15>>, <<15, 5>> >> >>],
      [outer |-> Inner, holes |-> <<Square>>],
      [outer |-> <<>>, holes |-> <<>>],
      [outer |-> <<>>, holes |-> <<Inner>>],
      [outer |-> << <<20, 20>> >>, holes |-> <<>>],
      [outer |-> << <<0, 0>>, <<40, 40>> >>, holes |-> <<>>],
      [outer |-> << <<0, 0>>, <<40, 40>>, <<0, 0>> >>, holes |-> <<>>] }

\* the longitudes and latitudes asked about
Grid == {5 * k - 5 : k \in 0..MaxSteps}

InitPolygon ==
    /\ scen = "polygon"
    /\ cfg = Normalized(EmptyConfig)
    /\ pc = "idle"
    /\ inrows = <<>>
    /\ fate = <<>>
    /\ refined_rows = <<>>
    /\ dedupe_index = {}
    /\ cnt = NoCounts
    /\ report = NoReport
    /\ boundary \in Polygons
    /\ included = <<>>
    /\ excluded = <<>>
    /\ invalid = <<>>
    /\ breport = NoReport
    /\ second = NoResult
    /\ point = NoPoint
    /\ kmz = NoKmz
    /\ result = NoResult
    /\ calls = NoCalls
    /\ run = NoRun
    /\ worker = NoThread
    /\ client = NoThread
    /\ arg = NoArg
    /\ ret = NoRet
    /\ heap = NoHeap

\* the outcome of point_in_polygon(lon, lat, polygon): polygon.bbox is
\* evaluated first
PointInPolygonCall(lon, lat, polygon) ==
    IF BboxRaises(polygon)
    THEN [returned |-> FALSE, raised |-> TRUE, error |-> "ValueError"]
    ELSE [returned |-> TRUE, raised |-> FALSE,
          value |-> PointInPolygon(lon, lat, polygon)]

\* a caller asks point_in_polygon(lon, lat, boundary)
AskPoint(lon, lat) ==
    /\ point' = <<lon, lat>>
    /\ result' = PointInPolygonCall(lon, lat, boundary)
    /\ UNCHANGED <<cfg, scen, pc, inrows, fate, refined_rows, dedupe_index, cnt,
                   report, boundary, included, excluded, invalid, breport, second,
                   kmz,
                   calls, run, worker, client,
          arg, ret, heap>>

NextPolygon == \E lon \in Grid, lat \in Grid : AskPoint(lon, lat)

SpecPolygon == InitPolygon /\ [][NextPolygon]_vars

-----------------------------------------------------------------------------
(* The state machine of load_kmz_polygon calls on one archive.             *)

Coords(text) == [tag |-> "coords", text |-> text]
NoCoords == [tag |-> "nocoords", text |-> ""]
Absent == [tag |-> "absent", text |-> ""]

\* the Polygon elements a markup may hold
PolygonElements ==
    { [outer |-> Coords(" 0,0,0 4,0,0 4,4,0 0,4,0 0.0,0,up "), inner |-> <<>>],
      [outer |-> Coords("0,0 4,0 4,4 0,4"),
       inner |-> <<Coords("1,1 2,1 2,2"), NoCoords, Coords("abc"),
                   Coords("1,1 3,1 3,3 1,1")>>],
      [outer |-> Coords("0,0,0 x,1,0 4,0 7 4,4,0 ,3 2,y"), inner |-> <<>>],
      [outer |-> Coords("1,2,0"), inner |-> <<Coords("1,2")>>],
      [outer |-> Coords("nan,1 2,2"), inner |-> <<>>],
      [outer |-> Absent, inner |-> <<Coords("0,0 4,0 4,4 0,0")>>],
      [outer |-> Coords("abc 5"), inner |-> <<>>],
      [outer |-> NoCoords, inner |-> <<>>] }

RECURSIVE SeqsUpTo(_, _)
SeqsUpTo(set, n) ==
    IF n = 0 THEN {<<>>}
    ELSE SeqsUpTo(set, n - 1)
            \cup {Append(q, x) : q \in {r \in SeqsUpTo(set, n - 1) : Len(r) = n - 1},
                                 x \in set}

\* the documents a member may hold
Documents ==
    {[wellformed |-> FALSE, polygons |-> <<>>]}
        \cup {[wellformed |-> TRUE, polygons |-> q] :
                 q \in SeqsUpTo(PolygonElements, MaxPolygons)}

Square1 == [wellformed |-> TRUE,
            polygons |-> << [outer |-> Coords("0,0 1,0 1,1 0,1 0,0"), inner |-> <<>>] >>]

Member(name, doc) == [name |-> name, doc |-> doc]

\* the archives a caller may name
Archives ==
    {<<>>, <<Member("readme.txt", Square1)>>, <<Member("kml", Square1)>>}
        \cup {<<Member("doc.kml", d)>> : d \in Documents}
        \cup {<<Member("notes.txt", Square1), Member("Area.KML", d)>> : d \in Documents}
        \cup {<<Member("a.kml", d), Member("b.kml", Square1)>> : d \in Documents}

InitLoader ==
    /\ scen = "loader"
    /\ cfg = Normalized(EmptyConfig)
    /\ pc = "idle"
    /\ inrows = <<>>
    /\ fate = <<>>
    /\ refined_rows = <<>>
    /\ dedupe_index = {}
    /\ cnt = NoCounts
    /\ report = NoReport
    /\ boundary = NoBoundary
    /\ included = <<>>
    /\ excluded = <<>>
    /\ invalid = <<>>
    /\ breport = NoReport
    /\ second = NoResult
    /\ point = NoPoint
    /\ kmz \in Archives
    /\ result = NoResult
    /\ calls = NoCalls
    /\ run = NoRun
    /\ worker = NoThread
    /\ client = NoThread
    /\ arg = NoArg
    /\ ret = NoRet
    /\ heap = NoHeap

\* a caller runs load_kmz_polygon on the archive
Load ==
    /\ pc = "idle"
    /\ result' = LoadKmzPolygon(kmz)
    /\ pc' = IF result'.raised THEN "raised" ELSE "loaded"
    /\ boundary' = IF result'.raised THEN boundary ELSE result'.value
    /\ UNCHANGED <<cfg, scen, inrows, fate, refined_rows, dedupe_index, cnt, report,
                   included, excluded, invalid, breport, second, point, kmz,
                   calls, run, worker, client,
          arg, ret, heap>>

NextLoader == Load

SpecLoader == InitLoader /\ [][NextLoader]_vars

-----------------------------------------------------------------------------
(* The state machine of two refine_rows calls on refiners of one           *)
(* configuration, interleaved at row granularity.  Each call has its own   *)
(* locals; the module-level tables and self.config are only read.          *)

CallIds == {1, 2}

\* the rows the callers pass: disjoint sets that share a dedupe key and names
CallRowsOf(k) ==
    IF k = 1
    THEN { << <<"Key", S("k")>>, <<"Id", S("2")>>, <<"Road Name", S("Broad St")>>,
              <<"Route", S("IN 127")>> >>,
           << <<"Key", S("k")>>, <<"Id", S("3")>>,
              <<"Road Name", S("W Broad Avenue")>>, <<"Route", S("Broad St")>> >>,
           << <<"Key", S("k")>>, <<"Id", S("8")>>, <<"Road Name", S("State Road 4")>>,
              <<"Route", S("Main Street")>> >> }
    ELSE { << <<"Key", S("k")>>, <<"Id", S("1")>>, <<"Road Name", S("Broad")>> >>,
           << <<"Key", S("k")>>, <<"Id", S("2")>>, <<"Road Name", S("Broad Ln")>> >>,
           << <<"Key", S("k")>>, <<"Id", S("7")>>, <<"Road Name", S("Main")>>,
              <<"Intersecting Road Name", S("broad")>> >> }

InitCalls ==
    /\ scen = "names"
    /\ cfg = Normalized(RawConfigOf(scen))
    /\ pc = "calls"
    /\ inrows = <<>>
    /\ fate = <<>>
    /\ refined_rows = <<>>
    /\ dedupe_index = {}
    /\ cnt = NoCounts
    /\ report = NoReport
    /\ boundary = NoBoundary
    /\ included = <<>>
    /\ excluded = <<>>
    /\ invalid = <<>>
    /\ breport = NoReport
    /\ second = NoResult
    /\ point = NoPoint
    /\ kmz = NoKmz
    /\ result = NoResult
    /\ calls = [k \in CallIds |->
                  [pc |-> "loop", in |-> <<>>, st |-> FreshCall, out |-> NoResult]]
    /\ run = NoRun
    /\ worker = NoThread
    /\ client = NoThread
    /\ arg = NoArg
    /\ ret = NoRet
    /\ heap = NoHeap

\* refiners whose calls keep one dedupe index between them
LocalsShared(k) ==
    [calls[k].st EXCEPT !.index = UNION {calls[j].st.index : j \in CallIds}]

\* the locals of call k: dedupe_index, refined_rows and the counters
LocalsOf(k) == calls[k].st

\* call k after the loop body ran on one more row and left the locals st
AfterRow(k, raw, st) ==
    [calls[k] EXCEPT !.in = Append(@, raw), !.st = st,
                     !.pc = IF st.raised THEN "raised" ELSE "loop"]

\* one iteration of "for raw_row in rows" in call k
CallRow(k, raw) ==
    /\ calls[k].pc = "loop"
    /\ Len(calls[k].in) < MaxCallRows
    /\ calls' = [calls EXCEPT ![k] = AfterRow(k, raw, RowInCall(LocalsOf(k), NormalizeRow(raw)))]
    /\ UNCHANGED <<cfg, scen, pc, inrows, fate, refined_rows, dedupe_index, cnt,
                   report, boundary, included, excluded, invalid, breport, second,
                   point, kmz, result, run, worker, client,
          arg, ret, heap>>

\* the input of call k is exhausted: pass 2, then rows and report are returned
CallReturn(k) ==
    /\ calls[k].pc = "loop"
    /\ calls' = [calls EXCEPT ![k].out = ReturnOfCall(calls[k].st), ![k].pc = "done"]
    /\ UNCHANGED <<cfg, scen, pc, inrows, fate, refined_rows, dedupe_index, cnt,
                   report, boundary, included, excluded, invalid, breport, second,
                   point, kmz, result, run, worker, client,
          arg, ret, heap>>

NextCalls ==
    \/ \E k \in CallIds : \E raw \in CallRowsOf(k) : CallRow(k, raw)
    \/ \E k \in CallIds : CallReturn(k)

SpecCalls == InitCalls /\ [][NextCalls]_vars

-----------------------------------------------------------------------------
(* The state machine of one _standardize_route call on a bounded family    *)
(* of values.                                                              *)

\* direction tokens as they are written in a value
DirectionWords == {"N", "s", "SW"}

\* the state-road spellings of _ROUTE_MULTI_TOKENS and the bare IN
StateRoadSpellings ==
    { <<"STATE", "ROAD">>, <<"State", "Route">>, <<"state", "rd">>,
      <<"STATE", "HWY">>, <<"State", "Highway">>, <<"St", "Rd">>,
      <<"ST", "ROAD">>, <<"S", "R">>, <<"IN">>, <<"in">> }

RouteNumbers == {"4", "127"}

\* the periods and commas written after a direction (d), a token of the
\* spelling (s) and the number (n)
MarkPatterns ==
    { [d |-> "",  s |-> "",   n |-> ""],
      [d |-> "",  s |-> ".",  n |-> ""],
      [d |-> "",  s |-> "",   n |-> ","],
      [d |-> ".", s |-> ".",  n |-> "."],
      [d |-> ",", s |-> ".,", n |-> ","] }

Marked(tokens, mark) == [i \in DOMAIN tokens |-> tokens[i] \o mark]

RECURSIVE JoinWith(_, _)
JoinWith(tokens, sep) ==
    IF tokens = <<>> THEN ""
    ELSE IF Len(tokens) = 1 THEN tokens[1]
    ELSE tokens[1] \o sep \o JoinWith(Tail(tokens), sep)

\* leading directions, a spelling, the number and trailing directions, each
\* token with its marks, separated by sep and surrounded by pad
RouteText(lead, spelling, number, trail, m, sep, pad) ==
    pad \o JoinWith(Marked(lead, m.d) \o Marked(spelling, m.s)
                      \o <<number \o m.n>> \o Marked(trail, m.d), sep) \o pad

\* the state-road texts, each with the number written in it
StateRoadTexts ==
    { <<RouteText(lead, spelling, number, trail, m, sep, pad), number>> :
        lead \in SeqsUpTo(DirectionWords, MaxDirections),
        spelling \in StateRoadSpellings, number \in RouteNumbers,
        trail \in SeqsUpTo(DirectionWords, 1), m \in MarkPatterns,
        sep \in {" ", "  "}, pad \in {"", " "} }

\* other values of a roadway-name column
OtherRouteValues ==
    { NoneV, IntV(4), StrV(""), StrV("  "), StrV(".,"), StrV("N"), StrV(" nb "),
      StrV("N Main St W"), StrV("North"), StrV("W Broad Avenue"), StrV("US-31 S"),
      StrV("E. Hwy 4 SB"), StrV("Northeast Pkwy"), StrV("s/e"), StrV("Broad") }

RouteValues == {StrV(p[1]) : p \in StateRoadTexts} \cup OtherRouteValues

InitRoute ==
    /\ scen = "none"
    /\ cfg = Normalized(RawConfigOf("names"))
    /\ pc = "route"
    /\ inrows = <<>>
    /\ fate = <<>>
    /\ refined_rows = <<>>
    /\ dedupe_index = {}
    /\ cnt = NoCounts
    /\ report = NoReport
    /\ boundary = NoBoundary
    /\ included = <<>>
    /\ excluded = <<>>
    /\ invalid = <<>>
    /\ breport = NoReport
    /\ second = NoResult
    /\ point = NoPoint
    /\ kmz = NoKmz
    /\ result = NoResult
    /\ calls = NoCalls
    /\ run = NoRun
    /\ worker = NoThread
    /\ client = NoThread
    /\ arg \in {[f |-> "_standardize_route", value |-> v] : v \in RouteValues}
    /\ ret = NoRet
    /\ heap = NoHeap

\* the call _standardize_route(value) of pass 1
StandardizeRouteCall ==
    /\ pc = "route"
    /\ ret' = [f |-> arg.f, value |-> StandardizeRoute(arg.value)]
    /\ pc' = "routed"
    /\ UNCHANGED <<cfg, scen, inrows, fate, refined_rows, dedupe_index, cnt,
                   report, boundary, included, excluded, invalid, breport, second,
                   point, kmz, result, calls, run, worker, client, arg, heap>>

NextRoute == StandardizeRouteCall

SpecRoute == InitRoute /\ [][NextRoute]_vars

-----------------------------------------------------------------------------
(* The state machine of _normalize_header on the keys of a row: a header,  *)
(* headers written like it, and the key of the header normalized again.    *)

\* the characters headers are written in
HeaderChars == {"a", "B", "1", " ", "_", "-"}

Headers == {Str(cs) : cs \in SeqsUpTo(HeaderChars, MaxHeaderLen)}

\* the header with every run of non-alphanumeric characters written as sep
WithRuns(header, sep) ==
    Str(SubRuns(Chars(header), Range(Chars(header)) \ AlNum, Chars(sep)))

\* headers that differ from header only in letter case, in surrounding
\* whitespace or in the kind and length of the separator runs
WrittenLike(header) ==
    { Str(UpperCs(Chars(header))), Str(LowerCs(Chars(header))),
      " " \o header, header \o "  ", "  " \o header \o " ",
      WithRuns(header, "-"), WithRuns(header, "_ _"), WithRuns(header, " . ") }

InitHeader ==
    /\ scen = "none"
    /\ cfg = Normalized(RawConfigOf("names"))
    /\ pc = "header"
    /\ inrows = <<>>
    /\ fate = <<>>
    /\ refined_rows = <<>>
    /\ dedupe_index = {}
    /\ cnt = NoCounts
    /\ report = NoReport
    /\ boundary = NoBoundary
    /\ included = <<>>
    /\ excluded = <<>>
    /\ invalid = <<>>
    /\ breport = NoReport
    /\ second = NoResult
    /\ point = NoPoint
    /\ kmz = NoKmz
    /\ result = NoResult
    /\ calls = NoCalls
    /\ run = NoRun
    /\ worker = NoThread
    /\ client = NoThread
    /\ arg \in {[f |-> "_normalize_header", value |-> h, others |-> WrittenLike(h)] :
                  h \in Headers}
    /\ ret = NoRet
    /\ heap = NoHeap

\* _normalize_header on the header and on the headers written like it
NormalizeHeaderCall ==
    /\ pc = "header"
    /\ ret' = [f |-> arg.f, value |-> NormalizeHeader(arg.value),
                others |-> {NormalizeHeader(h) : h \in arg.others},
                again |-> ""]
    /\ pc' = "normalized"
    /\ UNCHANGED <<cfg, scen, inrows, fate, refined_rows, dedupe_index, cnt,
                   report, boundary, included, excluded, invalid, breport, second,
                   point, kmz, result, calls, run, worker, client, arg, heap>>

\* _normalize_header on a key it returned
NormalizeHeaderAgain ==
    /\ pc = "normalized"
    /\ ret' = [ret EXCEPT !.again = NormalizeHeader(ret.value)]
    /\ pc' = "again"
    /\ UNCHANGED <<cfg, scen, inrows, fate, refined_rows, dedupe_index, cnt,
                   report, boundary, included, excluded, invalid, breport, second,
                   point, kmz, result, calls, run, worker, client, arg, heap>>

NextHeader == NormalizeHeaderCall \/ NormalizeHeaderAgain

SpecHeader == InitHeader /\ [][NextHeader]_vars

-----------------------------------------------------------------------------
(* The state machine of one call of refine_rows, filter_rows_by_boundary   *)
(* or refine_rows_with_boundary with every mapping an object of its own:   *)
(* heap.objs gives the content of each mapping, heap.rows the caller's     *)
(* list, and the other fields of heap are lists of addresses.              *)

FrameFunctions ==
    {"refine_rows", "filter_rows_by_boundary", "refine_rows_with_boundary"}

\* the heap when f is called with the mappings given
HeapOf(f, given) ==
    [f |-> f, objs |-> given, rows |-> [i \in DOMAIN given |-> i], given |-> given,
     next |-> Len(given) + 1, k |-> 0, st |-> FreshCall, refined |-> <<>>,
     included |-> <<>>, excluded |-> <<>>, invalid |-> <<>>, returned |-> <<>>]

InitFrame ==
    /\ scen = "district"
    /\ cfg = Normalized(RawConfigOf(scen))
    /\ pc = "frame"
    /\ inrows = <<>>
    /\ fate = <<>>
    /\ refined_rows = <<>>
    /\ dedupe_index = {}
    /\ cnt = NoCounts
    /\ report = NoReport
    /\ boundary = BoundaryOf(scen)
    /\ included = <<>>
    /\ excluded = <<>>
    /\ invalid = <<>>
    /\ breport = NoReport
    /\ second = NoResult
    /\ point = NoPoint
    /\ kmz = NoKmz
    /\ result = NoResult
    /\ calls = NoCalls
    /\ run = NoRun
    /\ worker = NoThread
    /\ client = NoThread
    /\ arg = NoArg
    /\ ret = NoRet
    /\ heap \in {HeapOf(f, given) :
                    f \in FrameFunctions,
                    given \in SeqsUpTo(BoundaryRowsOf(scen), MaxFrameRows)}

\* a loop that rewrites the mapping it was handed
WorkingCopyAliased(h, a) == a

\* the mapping the loop body works on: _normalize_row(raw_row) and
\* dict(raw_row) build a new dict
WorkingCopy(h, a) == h.next

Store(objs, a, v) == [x \in DOMAIN objs \cup {a} |-> IF x = a THEN v ELSE objs[x]]

\* row = ...: the mapping at w now holds v
Assigned(h, w, v) ==
    [h EXCEPT !.objs = Store(h.objs, w, v),
              !.next = IF w = h.next THEN h.next + 1 ELSE h.next]

\* the body of the loop of refine_rows on the mapping at w: a kept row is
\* rewritten in place and appended to refined_rows
RefineOne(h, w, st) ==
    IF Len(st.rows) > Len(h.st.rows)
    THEN [h EXCEPT !.st = st, !.objs = Store(h.objs, w, st.rows[Len(st.rows)]),
                   !.refined = Append(h.refined, w)]
    ELSE [h EXCEPT !.st = st]

RefineAt(h, w) == RefineOne(h, w, RowInCall(h.st, h.objs[w]))

\* pass 2 rewrites the refined rows in place
SuffixedInPlace(h, suffixed) ==
    [h EXCEPT !.objs = [x \in DOMAIN h.objs |->
                          IF \E i \in DOMAIN h.refined : h.refined[i] = x
                          THEN suffixed[CHOOSE i \in DOMAIN h.refined : h.refined[i] = x]
                          ELSE h.objs[x]]]

PassTwo(h) == SuffixedInPlace(h, ApplyRouteSuffixes(h.st.rows))

\* one iteration of the loop of refine_rows (normalize_headers = True)
FrameRefineRow ==
    /\ pc = "frame"
    /\ heap.f = "refine_rows"
    /\ heap.k < Len(heap.rows)
    /\ LET a == heap.rows[heap.k + 1]
            w == WorkingCopy(heap, a)
            h == RefineAt(Assigned(heap, w, NormalizeRow(heap.objs[a])), w)
       IN /\ heap' = [h EXCEPT !.k = heap.k + 1]
          /\ pc' = IF h.st.raised THEN "raised" ELSE pc
    /\ UNCHANGED <<cfg, scen, inrows, fate, refined_rows, dedupe_index, cnt,
                   report, boundary, included, excluded, invalid, breport, second,
                   point, kmz, result, calls, run, worker, client, arg, ret>>

\* refine_rows returns refined_rows after pass 2
FrameRefineReturn ==
    /\ pc = "frame"
    /\ heap.f = "refine_rows"
    /\ heap.k = Len(heap.rows)
    /\ heap' = [PassTwo(heap) EXCEPT !.returned = heap.refined]
    /\ pc' = "done"
    /\ UNCHANGED <<cfg, scen, inrows, fate, refined_rows, dedupe_index, cnt,
                   report, boundary, included, excluded, invalid, breport, second,
                   point, kmz, result, calls, run, worker, client, arg, ret>>

\* the bucket filter_rows_by_boundary appends the row to
BucketFor(row, lat, lon) ==
    IF IsNone(lat) \/ IsNone(lon) THEN "invalid"
    ELSE IF PointInPolygon(Tenths(lon), Tenths(lat), boundary) THEN "included"
    ELSE "excluded"

BucketAt(h, w) ==
    BucketFor(h.objs[w],
             ParseCoordinate(Get(h.objs[w], NormalizeHeader(LatitudeArg(scen)))),
             ParseCoordinate(Get(h.objs[w], NormalizeHeader(LongitudeArg(scen)))))

Bucketed(h, w) == [h EXCEPT ![BucketAt(h, w)] = Append(@, w)]

\* one iteration of the loop of filter_rows_by_boundary
FrameFilterRow ==
    /\ pc = "frame"
    /\ heap.f \in {"filter_rows_by_boundary", "refine_rows_with_boundary"}
    /\ heap.k < Len(heap.rows)
    /\ LET a == heap.rows[heap.k + 1]
            w == WorkingCopy(heap, a)
       IN heap' = [Bucketed(Assigned(heap, w, NormalizeRow(heap.objs[a])), w)
                     EXCEPT !.k = heap.k + 1]
    /\ UNCHANGED <<cfg, scen, pc, inrows, fate, refined_rows, dedupe_index, cnt,
                   report, boundary, included, excluded, invalid, breport, second,
                   point, kmz, result, calls, run, worker, client, arg, ret>>

\* filter_rows_by_boundary returns its three buckets
FrameFilterReturn ==
    /\ pc = "frame"
    /\ heap.f = "filter_rows_by_boundary"
    /\ heap.k = Len(heap.rows)
    /\ heap' = [heap EXCEPT !.returned = heap.included \o heap.excluded \o heap.invalid]
    /\ pc' = "done"
    /\ UNCHANGED <<cfg, scen, inrows, fate, refined_rows, dedupe_index, cnt,
                   report, boundary, included, excluded, invalid, breport, second,
                   point, kmz, result, calls, run, worker, client, arg, ret>>

\* the loop of refine_rows(included, normalize_headers=False) over the
\* first n rows of the included bucket: row = dict(raw_row)
RECURSIVE RefineCopies(_, _)
RefineCopies(h, n) ==
    IF n = 0 THEN h
    ELSE LET g == RefineCopies(h, n - 1)
             w == WorkingCopy(g, g.included[n])
         IN RefineAt(Assigned(g, w, g.objs[g.included[n]]), w)

WithInvalid(h) == [h EXCEPT !.returned = h.refined \o h.invalid]

\* refine_rows_with_boundary after its filter: the included bucket is
\* refined and the refined rows are returned with the invalid ones
FrameRefineIncluded ==
    /\ pc = "frame"
    /\ heap.f = "refine_rows_with_boundary"
    /\ heap.k = Len(heap.rows)
    /\ heap' = WithInvalid(PassTwo(RefineCopies(heap, Len(heap.included))))
    /\ pc' = IF heap'.st.raised THEN "raised" ELSE "done"
    /\ UNCHANGED <<cfg, scen, inrows, fate, refined_rows, dedupe_index, cnt,
                   report, boundary, included, excluded, invalid, breport, second,
                   point, kmz, result, calls, run, worker, client, arg, ret>>

NextFrame ==
    \/ FrameRefineRow
    \/ FrameRefineReturn
    \/ FrameFilterRow
    \/ FrameFilterReturn
    \/ FrameRefineIncluded

SpecFrame == InitFrame /\ [][NextFrame]_vars

-----------------------------------------------------------------------------
(* The state machine of _apply_route_suffixes on a list of rows that went  *)
(* through pass 1, applied once and then once more to its own result.      *)

\* the rows of refined_rows when refine_rows reaches pass 2
PassOneRows ==
    { StandardizeNames(NormalizeRow(raw)) :
        raw \in RowsOf("names")
                \cup { << <<"Key", S("BROAD")>>, <<"Road Name", NoneV>>,
                          <<"Route", IntV(4)>> >> } }

InitPassTwo ==
    /\ scen = "names"
    /\ cfg = Normalized(RawConfigOf(scen))
    /\ pc = "pass2"
    /\ inrows = <<>>
    /\ fate = <<>>
    /\ refined_rows = <<>>
    /\ dedupe_index = {}
    /\ cnt = NoCounts
    /\ report = NoReport
    /\ boundary = NoBoundary
    /\ included = <<>>
    /\ excluded = <<>>
    /\ invalid = <<>>
    /\ breport = NoReport
    /\ second = NoResult
    /\ point = NoPoint
    /\ kmz = NoKmz
    /\ result = NoResult
    /\ calls = NoCalls
    /\ run = NoRun
    /\ worker = NoThread
    /\ client = NoThread
    /\ arg \in {[f |-> "_apply_route_suffixes", rows |-> rows] :
                  rows \in SeqsUpTo(PassOneRows, MaxRows)}
    /\ ret = NoRet
    /\ heap = NoHeap

\* _apply_route_suffixes(refined_rows)
ApplyRouteSuffixesCall ==
    /\ pc = "pass2"
    /\ ret' = [f |-> arg.f, rows |-> ApplyRouteSuffixes(arg.rows), again |-> <<>>]
    /\ pc' = "suffixed"
    /\ UNCHANGED <<cfg, scen, inrows, fate, refined_rows, dedupe_index, cnt,
                   report, boundary, included, excluded, invalid, breport, second,
                   point, kmz, result, calls, run, worker, client, arg, heap>>

\* _apply_route_suffixes on the rows it has rewritten
ApplyRouteSuffixesAgain ==
    /\ pc = "suffixed"
    /\ ret' = [ret EXCEPT !.again = ApplyRouteSuffixes(ret.rows)]
    /\ pc' = "again"
    /\ UNCHANGED <<cfg, scen, inrows, fate, refined_rows, dedupe_index, cnt,
                   report, boundary, included, excluded, invalid, breport, second,
                   point, kmz, result, calls, run, worker, client, arg, heap>>

NextPassTwo == ApplyRouteSuffixesCall \/ ApplyRouteSuffixesAgain

SpecPassTwo == InitPassTwo /\ [][NextPassTwo]_vars

-----------------------------------------------------------------------------
(* The state machine of one run of the web job service: the job thread     *)
(* (_run_refinement_job or _run_report_job) writes the RunState statement  *)
(* by statement while a client polls /api/run/<id>/log and /api/run/<id>.  *)
(* A log line is known by its seq.                                         *)

MAX_LOG_ENTRIES == 1500

Jobs == {"refinement", "report"}

\* the RunState the request handler hands to the job thread; the report
\* handler has set output_dir already
RunStateOf(job) ==
    [status |-> "queued", message |-> "", error |-> FALSE, started_at |-> FALSE,
     finished_at |-> FALSE, output_dir |-> (job = "report"), outputs |-> "empty",
     summary |-> "empty", log_entries |-> <<>>, log_seq |-> 0, last_log |-> 0]

NoSnapshot == [status |-> "none"]

InitWeb ==
    /\ scen = "none"
    /\ cfg = Normalized(RawConfigOf("names"))
    /\ pc = "web"
    /\ inrows = <<>>
    /\ fate = <<>>
    /\ refined_rows = <<>>
    /\ dedupe_index = {}
    /\ cnt = NoCounts
    /\ report = NoReport
    /\ boundary = NoBoundary
    /\ included = <<>>
    /\ excluded = <<>>
    /\ invalid = <<>>
    /\ breport = NoReport
    /\ second = NoResult
    /\ point = NoPoint
    /\ kmz = NoKmz
    /\ result = NoResult
    /\ calls = NoCalls
    /\ \E job \in Jobs :
          /\ run = RunStateOf(job)
          /\ worker = [pc |-> "start", job |-> job, lines |-> 0]
    /\ client = [pc |-> "idle", since |-> 0, got |-> <<>>, polls |-> 0,
                 entries |-> <<>>, snap |-> NoSnapshot, seen |-> NoSnapshot]
    /\ arg = NoArg
    /\ ret = NoRet
    /\ heap = NoHeap

\* del self.log_entries[:overflow]
Trimmed(entries) ==
    IF Len(entries) > MAX_LOG_ENTRIES
    THEN SubSeq(entries, Len(entries) - MAX_LOG_ENTRIES + 1, Len(entries))
    ELSE entries

\* RunState.append_log of one line, under self.lock
AppendLog(r) ==
    [r EXCEPT !.log_seq = r.log_seq + 1,
              !.log_entries = Trimmed(Append(r.log_entries, r.log_seq + 1)),
              !.last_log = r.log_seq + 1]

\* RunState.log_since, under self.lock
LogSince(r, seq) ==
    IF seq <= 0 THEN r.log_entries
    ELSE IF r.log_entries # <<>> /\ seq < r.log_entries[1] THEN r.log_entries
    ELSE SelectSeq(r.log_entries, LAMBDA e : e > seq)

\* the job thread takes one step to the position next, leaving the RunState r
JobStep(at, next, r) ==
    /\ pc = "web"
    /\ worker.pc = at
    /\ worker' = [worker EXCEPT !.pc = next]
    /\ run' = r
    /\ UNCHANGED <<cfg, scen, pc, inrows, fate, refined_rows, dedupe_index, cnt,
                   report, boundary, included, excluded, invalid, breport, second,
                   point, kmz, result, calls, client, arg, ret, heap>>

\* state.status = "running"
JobRunning == JobStep("start", "started_at", [run EXCEPT !.status = "running"])

\* state.started_at = datetime.utcnow()
JobStartedAt ==
    JobStep("started_at",
            IF worker.job = "refinement" THEN "output_dir" ELSE "log_start",
            [run EXCEPT !.started_at = TRUE])

\* state.output_dir = run_dir
JobOutputDir == JobStep("output_dir", "log_start", [run EXCEPT !.output_dir = TRUE])

\* state.append_log("Starting refinement ...") / ("Generating PDF report ...")
JobLogStart == JobStep("log_start", "try", AppendLog(run))

\* a step of the try block of a refinement job that ends with append_log
JobWork ==
    /\ pc = "web"
    /\ worker.pc = "try"
    /\ worker.job = "refinement"
    /\ worker.lines < MaxWorkLines
    /\ worker' = [worker EXCEPT !.lines = worker.lines + 1]
    /\ run' = AppendLog(run)
    /\ UNCHANGED <<cfg, scen, pc, inrows, fate, refined_rows, dedupe_index, cnt,
                   report, boundary, included, excluded, invalid, breport, second,
                   point, kmz, result, calls, client, arg, ret, heap>>

\* a step of the try block raises
JobRaise == JobStep("try", "except", run)

\* state.status = "success"
JobSuccess ==
    /\ worker.job = "refinement" => worker.lines = MaxWorkLines
    /\ JobStep("try", "message", [run EXCEPT !.status = "success"])

\* state.message = "Refinement complete." / "PDF report generated."
JobMessage == JobStep("message", "log_done", [run EXCEPT !.message = "complete"])

\* state.append_log(state.message)
JobLogDone ==
    JobStep("log_done", IF worker.job = "refinement" THEN "summary" ELSE "finally",
            AppendLog(run))

\* state.summary = _build_summary(...)
JobSummary == JobStep("summary", "finally", [run EXCEPT !.summary = "built"])

\* except Exception: state.status = "error"
JobExcept == JobStep("except", "error", [run EXCEPT !.status = "error"])

\* state.error = str(exc)
JobError == JobStep("error", "failed", [run EXCEPT !.error = TRUE])

\* state.message = "Refinement failed." / "PDF report failed."
JobFailed == JobStep("failed", "log_error", [run EXCEPT !.message = "failed"])

\* state.append_log(f"Error: {exc}", level="error")
JobLogError == JobStep("log_error", "finally", AppendLog(run))

\* finally: state.finished_at = datetime.utcnow()
JobFinishedAt == JobStep("finally", "outputs", [run EXCEPT !.finished_at = TRUE])

\* if state.output_dir: state.outputs = _list_outputs(state.output_dir)
JobOutputs ==
    JobStep("outputs", "end",
            IF run.output_dir THEN [run EXCEPT !.outputs = "listed"] ELSE run)

\* the client takes one step to the position next and is left as c
ClientStep(at, next, c) ==
    /\ pc = "web"
    /\ client.pc = at
    /\ client' = [c EXCEPT !.pc = next]
    /\ UNCHANGED <<cfg, scen, pc, inrows, fate, refined_rows, dedupe_index, cnt,
                   report, boundary, included, excluded, invalid, breport, second,
                   point, kmz, result, calls, run, worker, arg, ret, heap>>

\* run_log: "entries": state.log_since(seq), seq being the since of the request
RunLogEntries ==
    /\ client.polls < MaxPolls
    /\ ClientStep("idle", "last_seq",
                  [client EXCEPT !.entries = LogSince(run, client.since),
                                 !.polls = client.polls + 1])

\* run_log: "lastSeq": state.log_seq; the response reaches the client, which
\* keeps the entries and asks next time with since = lastSeq
RunLogLastSeq ==
    ClientStep("last_seq", "idle",
               [client EXCEPT !.got = client.got \o client.entries,
                              !.since = run.log_seq,
                              !.entries = <<>>])

\* run_status: snapshot() reads self.status
SnapshotStatus ==
    /\ client.polls < MaxPolls
    /\ ClientStep("idle", "finishedAt",
                  [client EXCEPT !.snap = [status |-> run.status],
                                 !.polls = client.polls + 1])

\* snapshot() reads self.finished_at
SnapshotFinishedAt ==
    ClientStep("finishedAt", "outputs",
               [client EXCEPT !.snap = [status |-> client.snap.status,
                                        finishedAt |-> run.finished_at]])

\* snapshot() reads self.outputs
SnapshotOutputs ==
    ClientStep("outputs", "summary",
               [client EXCEPT !.snap = [status |-> client.snap.status,
                                        finishedAt |-> client.snap.finishedAt,
                                        outputs |-> run.outputs]])

\* snapshot() reads self.summary; the response reaches the client
SnapshotSummary ==
    ClientStep("summary", "idle",
               [client EXCEPT !.seen = [status |-> client.snap.status,
                                        finishedAt |-> client.snap.finishedAt,
                                        outputs |-> client.snap.outputs,
                                        summary |-> run.summary],
                              !.snap = NoSnapshot])

NextWeb ==
    \/ JobRunning
    \/ JobStartedAt
    \/ JobOutputDir
    \/ JobLogStart
    \/ JobWork
    \/ JobRaise
    \/ JobSuccess
    \/ JobMessage
    \/ JobLogDone
    \/ JobSummary
    \/ JobExcept
    \/ JobError
    \/ JobFailed
    \/ JobLogError
    \/ JobFinishedAt
    \/ JobOutputs
    \/ RunLogEntries
    \/ RunLogLastSeq
    \/ SnapshotStatus
    \/ SnapshotFinishedAt
    \/ SnapshotOutputs
    \/ SnapshotSummary

SpecWeb == InitWeb /\ [][NextWeb]_vars

-----------------------------------------------------------------------------
(* Vocabulary of the properties.                                           *)

Rows == 1..Len(inrows)

\* the consumed row i under canonical headers
NormIn(i) == NormalizeRow(inrows[i])

KeptRows == {i \in Rows : fate[i] = "kept"}

\* the output row of the kept input row i
Out(i) == refined_rows[Cardinality({j \in 1..i : fate[j] = "kept"})]

\* a cell that is null or a whitespace-only string
Blank(v) == IsNone(v) \/ (IsStr(v) /\ \A k \in 1..Len(v.s) : SubSeq(v.s, k, k) \in Space)

\* the cell of the row at column c once the configured defaults are in place
Defaulted(row, c) ==
    IF c \in DOMAIN cfg.fill_defaults /\ Blank(Get(row, c))
    THEN cfg.fill_defaults[c]
    ELSE Get(row, c)

Effective(i, c) == Defaulted(NormIn(i), c)

\* a raw row lacks a value for a required column: no header of the row has the
\* canonical form of the column's name in the config, or the last such header
\* carries null or the empty string
LastHitEmpty(raw, hits) ==
    \/ hits = {}
    \/ \E k \in hits : /\ \A k2 \in hits : k2 <= k
                       /\ raw[k][2] \in {NoneV, StrV("")}

LacksRequired(raw, want) ==
    LastHitEmpty(raw, {k \in DOMAIN raw : NormalizeHeader(raw[k][1]) = want})

MissingIn(raw, required) ==
    \E r \in DOMAIN required : LacksRequired(raw, NormalizeHeader(required[r]))

MissingRequired(i) == MissingIn(inrows[i], RawConfigOf(scen).required_columns)

\* row i went through the required-field check and was not dropped by it
PassedRequired(i) == fate[i] \in {"kept", "duplicate"}

\* rows i and j carry equal values at every dedupe_on column (values compare
\* as the language compares them; an absent column counts as null)
SameKeyRows(r1, r2) ==
    \A d \in DOMAIN cfg.dedupe_on :
        PyEq(Get(r1, cfg.dedupe_on[d]), Get(r2, cfg.dedupe_on[d]))

SameKey(i, j) == SameKeyRows(NormIn(i), NormIn(j))

\* the columns refine_rows may rewrite under the configuration
ConfiguredColumns ==
    Range(cfg.date_columns) \cup Range(cfg.integer_columns)
    \cup Range(cfg.float_columns) \cup Range(cfg.boolean_columns)
    \cup DOMAIN cfg.fill_defaults \cup CRASH_TYPE_COLUMNS \cup ROUTE_COLUMNS

\* the output row out carries the cells of the input row in at every column
\* the configuration does not touch
SameElsewhere(in, out) ==
    \A c \in DOMAIN in \ ConfiguredColumns : out[c] = in[c]

Refining == pc \in {"loop", "done", "raised"}

-----------------------------------------------------------------------------
(* C1: the report of refine_rows balances: kept_rows +                     *)
(* dropped_missing_required + dropped_duplicates = total_rows, total_rows  *)
(* is the number of input rows and kept_rows the length of the returned    *)
(* list.                                                                   *)
C1_ReportBalances ==
    pc = "done" =>
        /\ report.kept_rows + report.dropped_missing_required
             + report.dropped_duplicates = report.total_rows
        /\ report.total_rows = Len(inrows)
        /\ report.kept_rows = Len(refined_rows)

C1_Witness ==
    /\ pc = "done"
    /\ report.kept_rows >= 1
    /\ report.dropped_missing_required >= 1
    /\ report.dropped_duplicates >= 1

-----------------------------------------------------------------------------
(* C2: filter_rows_by_boundary puts every input row into exactly one of    *)
(* included / excluded / invalid: invalid iff latitude or longitude is     *)
(* missing, empty or unparsable, included iff both parse and               *)
(* point_in_polygon holds, excluded otherwise; the report counts are the   *)
(* bucket lengths and they add up to total_rows.                           *)

\* the latitude / longitude cell of input row i
LatCell(i) == Get(NormIn(i), NormalizeHeader(LatitudeArg(scen)))
LonCell(i) == Get(NormIn(i), NormalizeHeader(LongitudeArg(scen)))

\* a cell that cannot be a coordinate whatever the parser: null, empty text,
\* or text with a character no number is written with
NoNumber(v) ==
    \/ IsNone(v)
    \/ \A k \in 1..Len(PyStr(v)) : SubSeq(PyStr(v), k, k) \in Space
    \/ \E k \in 1..Len(PyStr(v)) :
          SubSeq(PyStr(v), k, k) \notin Digits \cup Space \cup {"+", "-", ".", "e", "E"}

Unusable(i) == IsNone(ParseCoordinate(LatCell(i))) \/ IsNone(ParseCoordinate(LonCell(i)))

Inside(i) ==
    PointInPolygon(Tenths(ParseCoordinate(LonCell(i))),
                   Tenths(ParseCoordinate(LatCell(i))), boundary)

BucketOf(i) ==
    IF Unusable(i) THEN "invalid" ELSE IF Inside(i) THEN "included" ELSE "excluded"

\* the rows among the first n that went to bucket b, in input order
RECURSIVE Bucket(_, _)
Bucket(b, n) ==
    IF n = 0 THEN <<>>
    ELSE IF fate[n] = b THEN Append(Bucket(b, n - 1), NormIn(n))
    ELSE Bucket(b, n - 1)

C2_Buckets ==
    pc \in {"filter", "filtered"} =>
        /\ \A i \in Rows : fate[i] = BucketOf(i)
        /\ \A i \in Rows : NoNumber(LatCell(i)) \/ NoNumber(LonCell(i)) => fate[i] = "invalid"
        /\ included = Bucket("included", Len(inrows))
        /\ excluded = Bucket("excluded", Len(inrows))
        /\ invalid = Bucket("invalid", Len(inrows))
        /\ Len(included) + Len(excluded) + Len(invalid) = Len(inrows)
        /\ pc = "filtered" =>
             /\ breport.included_rows = Len(included)
             /\ breport.excluded_rows = Len(excluded)
             /\ breport.invalid_rows = Len(invalid)
             /\ breport.total_rows = Len(inrows)
             /\ breport.included_rows + breport.excluded_rows + breport.invalid_rows
                  = breport.total_rows

C2_Witness ==
    /\ pc = "filtered"
    /\ breport.included_rows >= 1
    /\ breport.excluded_rows >= 1
    /\ breport.invalid_rows >= 1

-----------------------------------------------------------------------------
(* C3: a row is dropped and counted in dropped_missing_required exactly    *)
(* when a required column (headers compared in canonical form) is absent,  *)
(* null or the empty string; no such row is in the output.                 *)
C3_RequiredDrop ==
    Refining =>
        /\ \A i \in Rows : fate[i] = "missing" <=> MissingRequired(i)
        /\ cnt.dropped_missing_required = Cardinality({i \in Rows : MissingRequired(i)})
        /\ Len(refined_rows) = Cardinality({i \in Rows : fate[i] = "kept"})

C3_Witness ==
    /\ pc = "done"
    /\ \E i, j, k \in Rows :
          /\ fate[i] = "missing" /\ fate[j] = "missing" /\ fate[k] = "missing"
          /\ "crash_id" \notin DOMAIN NormIn(i)
          /\ Get(NormIn(j), "crash_id") = StrV("")
          /\ "crash_id" \in DOMAIN NormIn(k) /\ NormIn(k)["crash_id"] = NoneV

-----------------------------------------------------------------------------
(* C4 as claimed: with dedupe_on configured, a row that passes the         *)
(* required-field check is dropped as a duplicate exactly when some        *)
(* earlier row of the call had the same values at the dedupe_on columns.   *)
C4_AnyEarlierRow ==
    (Refining /\ cfg.dedupe_on # <<>>) =>
        \A i \in Rows : PassedRequired(i) =>
            (fate[i] = "duplicate" <=> \E j \in 1..(i - 1) : SameKey(i, j))

(* C4 amended: first occurrence wins among the rows that passed the        *)
(* required-field check.  Such a row is dropped as a duplicate exactly     *)
(* when an earlier row that also passed that check had the same values at  *)
(* the dedupe_on columns; the output keeps the kept rows in input order    *)
(* (seen on the columns the configuration does not touch); with empty      *)
(* dedupe_on nothing is dropped as a duplicate.                            *)
C4_FirstOccurrenceWins ==
    Refining =>
        /\ cfg.dedupe_on # <<>> =>
             \A i \in Rows : PassedRequired(i) =>
                (fate[i] = "duplicate" <=>
                    \E j \in 1..(i - 1) : PassedRequired(j) /\ SameKey(i, j))
        /\ cfg.dedupe_on = <<>> =>
             /\ \A i \in Rows : fate[i] # "duplicate"
             /\ cnt.dropped_duplicates = 0
        /\ cnt.dropped_duplicates = Cardinality({i \in Rows : fate[i] = "duplicate"})
        /\ Len(refined_rows) = Cardinality(KeptRows)
        /\ \A i \in KeptRows : SameElsewhere(NormIn(i), Out(i))

C4_Witness ==
    /\ pc = "done"
    /\ cfg.dedupe_on # <<>>
    /\ \E i, j, k \in Rows :
          /\ i < j /\ j < k
          /\ fate[i] = "missing" /\ fate[j] = "kept" /\ fate[k] = "duplicate"
          /\ SameKey(i, j) /\ SameKey(j, k)

-----------------------------------------------------------------------------
(* What the per-row steps make of a cell, stated step by step.             *)

\* the configured type coercion of column c applied to the value v
Coerced(c, v) ==
    IF c \in Range(cfg.date_columns) THEN ParseDate(v)
    ELSE IF c \in Range(cfg.integer_columns) THEN CoerceInt(v)
    ELSE IF c \in Range(cfg.float_columns) THEN CoerceFloat(v)
    ELSE IF c \in Range(cfg.boolean_columns) THEN CoerceBoolean(v)
    ELSE v

\* pass 1 of the name standardizer on column c
Named(c, v) ==
    IF c \in CRASH_TYPE_COLUMNS THEN StandardizeCrashType(v)
    ELSE IF c \in ROUTE_COLUMNS THEN StandardizeRoute(v)
    ELSE v

\* the cell (i, c) is as pass 1 left it: pass 2 rewrites route columns only
Pass1Cell(c) == c \notin ROUTE_COLUMNS \/ pc = "loop"

NameColumns == CRASH_TYPE_COLUMNS \cup ROUTE_COLUMNS

CanonicalDate(v) ==
    /\ IsStr(v)
    /\ \/ MatchPat(Chars(v.s), "dddd-dd-dd")
       \/ MatchPat(Chars(v.s), "dddd-dd-dd dd:dd:dd")

\* the trimmed text of v matches a recognised date format
RecognisedDate(v) ==
    \/ IsoMatch(StripCs(Chars(v.s), Space))
    \/ \E f \in DOMAIN DATE_FORMATS :
          ValidParses(StripCs(Chars(v.s), Space), DATE_FORMATS[f]) # {}

DateCells == {x \in KeptRows \X Range(cfg.date_columns) : TRUE}

-----------------------------------------------------------------------------
(* C5: the per-row steps run in the order required/duplicate filter,       *)
(* defaults, coercion, pass-1 standardization.  Hence a row whose required *)
(* column is empty is dropped though a default is configured for it; the   *)
(* dedupe key is taken from the values before defaults; and every cell of  *)
(* a kept row is the standardization of the coercion of the defaulted      *)
(* value.                                                                  *)
\* the cell of the output row is the standardization of the coercion of the
\* defaulted cell of the input row
CellInOrder(in, out, c) == Get(out, c) = Named(c, Coerced(c, Defaulted(in, c)))

InStepOrder(in, out) ==
    \A c \in ConfiguredColumns : Pass1Cell(c) => CellInOrder(in, out, c)

C5_StepOrder ==
    Refining =>
        /\ \A i \in Rows :
              \A r \in DOMAIN cfg.required_columns :
                 /\ cfg.required_columns[r] \in DOMAIN cfg.fill_defaults
                 /\ Get(NormIn(i), cfg.required_columns[r]) \in {NoneV, StrV("")}
                 => fate[i] = "missing"
        /\ cfg.dedupe_on # <<>> =>
              \A i, j \in KeptRows : i < j => ~SameKey(i, j)
        /\ \A i \in Rows : fate[i] = "duplicate" =>
              \E j \in 1..(i - 1) : fate[j] = "kept" /\ SameKey(i, j)
        /\ \A i \in KeptRows : InStepOrder(NormIn(i), Out(i))

C5_Witness ==
    /\ pc = "done"
    /\ scen = "order"
    /\ \E i, j, k \in Rows :
          /\ fate[i] = "missing" /\ Get(NormIn(i), "key") = StrV("")
          /\ fate[j] = "kept" /\ fate[k] = "kept" /\ j < k
          /\ Get(NormIn(j), "tag") = NoneV /\ Get(NormIn(k), "tag") = StrV("")
          /\ Get(Out(j), "tag") = Get(Out(k), "tag")
          /\ Get(NormIn(j), "route") = StrV("01/05/2024")
          /\ Get(Out(j), "route") = StrV("2024 01 05")
          /\ Get(NormIn(j), "count") = StrV("")
          /\ Get(Out(j), "count") = IntV(7)

-----------------------------------------------------------------------------
(* C6: in a kept row, a fill_defaults column whose value is absent, null   *)
(* or whitespace-only holds the configured default as the column's         *)
(* coercion (and standardization) renders it; a value that is neither null *)
(* nor whitespace-only is never replaced by the default.                   *)
DefaultsApplied(in, out) ==
    \A c \in DOMAIN cfg.fill_defaults : Pass1Cell(c) =>
       IF Blank(Get(in, c))
       THEN Get(out, c) = Named(c, Coerced(c, cfg.fill_defaults[c]))
       ELSE Get(out, c) = Named(c, Coerced(c, in[c]))

C6_Defaults ==
    Refining =>
        \A i \in KeptRows : DefaultsApplied(NormIn(i), Out(i))

C6_Witness ==
    /\ pc = "done"
    /\ scen = "coerce"
    /\ \E i, j \in KeptRows :
          /\ NormIn(i)["fatalities"] = StrV("")
          /\ NormIn(i)["serious_injuries"] = NoneV
          /\ "hit_and_run" \notin DOMAIN NormIn(i)
          /\ Out(i)["fatalities"] = IntV(7)
          /\ Out(i)["serious_injuries"] = FloatV(9, 0)
          /\ Out(i)["hit_and_run"] = BoolV(FALSE)
          /\ NormIn(j)["fatalities"] = StrV(" 12 ")
          /\ Out(j)["fatalities"] = IntV(12)

-----------------------------------------------------------------------------
(* C7 as claimed: type coercion never raises, refine_rows always completes *)
(* and returns for rows of scalar cells.  The code violates it: a date     *)
(* column holding a number or a boolean ends the call with AttributeError. *)
C7_CoercionNeverRaises == pc # "raised"

-----------------------------------------------------------------------------
(* C8: in a kept row an integer or float column holds the parsed number    *)
(* when the trimmed text parses and null otherwise, a boolean column holds *)
(* true for {true,t,1,yes,y}, false for {false,f,0,no,n} (case ignored)    *)
(* and null otherwise; no unparsable string stays in such a column.        *)

\* the trimmed, lower-cased text of a cell
Word(v) == Str(LowerCs(StripCs(Chars(PyStr(v)), Space)))

\* the boolean the claim's word tables give for the value v
BooleanOf(v, word) ==
    IF IsNone(v) THEN NoneV
    ELSE IF word \in {"true", "t", "1", "yes", "y"} THEN BoolV(TRUE)
    ELSE IF word \in {"false", "f", "0", "no", "n"} THEN BoolV(FALSE)
    ELSE NoneV

NumbersAndBooleans(in, out) ==
    /\ \A c \in Range(cfg.integer_columns) :
          /\ Get(out, c) = CoerceInt(Defaulted(in, c))
          /\ Get(out, c).t \in {"int", "none"}
    /\ \A c \in Range(cfg.float_columns) :
          /\ Get(out, c) = CoerceFloat(Defaulted(in, c))
          /\ Get(out, c).t \in {"float", "none"}
    /\ \A c \in Range(cfg.boolean_columns) :
          Get(out, c) = BooleanOf(Defaulted(in, c),
                                  IF IsNone(Defaulted(in, c)) THEN ""
                                  ELSE Word(Defaulted(in, c)))

C8_NumericBoolean ==
    Refining =>
        \A i \in KeptRows : NumbersAndBooleans(NormIn(i), Out(i))

C8_Witness ==
    /\ pc = "done"
    /\ scen = "coerce"
    /\ \E i, j \in KeptRows :
          /\ NormIn(i)["fatalities"] = StrV(" 12 ") /\ Out(i)["fatalities"] = IntV(12)
          /\ NormIn(i)["hit_and_run"] = StrV(" Yes ") /\ Out(i)["hit_and_run"] = BoolV(TRUE)
          /\ NormIn(j)["fatalities"] = StrV("twelve") /\ Out(j)["fatalities"] = NoneV
          /\ NormIn(j)["hit_and_run"] = StrV("maybe") /\ Out(j)["hit_and_run"] = NoneV

-----------------------------------------------------------------------------
(* C9 as claimed: a date column holding a non-empty string that matches no *)
(* recognised format keeps the original text unchanged in the kept row,    *)
(* and coerced_dates is not incremented for it.  The code violates it: the *)
(* text comes back with its surrounding whitespace removed and is counted  *)
(* as coerced.                                                             *)
C9_UnparsableDateKept ==
    Refining =>
        /\ \A x \in DateCells :
              /\ x[2] \notin NameColumns
              /\ IsStr(Effective(x[1], x[2]))
              /\ ~Blank(Effective(x[1], x[2]))
              /\ ~RecognisedDate(Effective(x[1], x[2]))
              => Get(Out(x[1]), x[2]) = Effective(x[1], x[2])
        /\ cnt.coerced_dates <=
              Cardinality({x \in DateCells :
                  IsStr(Effective(x[1], x[2])) /\ RecognisedDate(Effective(x[1], x[2]))})

-----------------------------------------------------------------------------
-----------------------------------------------------------------------------
(* The coercion counters, recounted from the rows.                         *)

NumberColumns == Range(cfg.integer_columns) \cup Range(cfg.float_columns)

\* the numeric coercion configured for column c, applied to v
NumberOf(c, v) ==
    IF c \in Range(cfg.integer_columns) THEN CoerceInt(v) ELSE CoerceFloat(v)

\* the columns of a row whose numeric / boolean coercion succeeded
NumbersMade(in) ==
    {c \in NumberColumns : ~IsNone(NumberOf(c, Defaulted(in, c)))}

BooleansMade(in) ==
    {c \in Range(cfg.boolean_columns) : ~IsNone(CoerceBoolean(Defaulted(in, c)))}

\* ... and, of these, the columns whose result differs from the cell it was
\* made from, values compared as the language compares them
NumbersChanged(in) ==
    {c \in NumberColumns :
        /\ ~IsNone(NumberOf(c, Defaulted(in, c)))
        /\ ~PyEq(NumberOf(c, Defaulted(in, c)), Defaulted(in, c))}

BooleansChanged(in) ==
    {c \in Range(cfg.boolean_columns) :
        /\ ~IsNone(CoerceBoolean(Defaulted(in, c)))
        /\ ~PyEq(CoerceBoolean(Defaulted(in, c)), Defaulted(in, c))}

\* the four cell counts of one row
RowCount(in) ==
    [nmade    |-> Cardinality(NumbersMade(in)),
     bmade    |-> Cardinality(BooleansMade(in)),
     nchanged |-> Cardinality(NumbersChanged(in)),
     bchanged |-> Cardinality(BooleansChanged(in))]

AddCount(a, b) ==
    [nmade    |-> a.nmade + b.nmade,       bmade    |-> a.bmade + b.bmade,
     nchanged |-> a.nchanged + b.nchanged, bchanged |-> a.bchanged + b.bchanged]

\* the sums of the cell counts over the kept rows among the first n
RECURSIVE Recount(_)
Recount(n) ==
    IF n = 0 THEN [nmade |-> 0, bmade |-> 0, nchanged |-> 0, bchanged |-> 0]
    ELSE IF fate[n] # "kept" THEN Recount(n - 1)
    ELSE AddCount(Recount(n - 1), RowCount(NormIn(n)))

CountsMade(r) == cnt.coerced_numbers = r.nmade /\ cnt.coerced_booleans = r.bmade

CountsChanged(r) == cnt.coerced_numbers = r.nchanged /\ cnt.coerced_booleans = r.bchanged

FewerCounted(r) == cnt.coerced_numbers < r.nmade /\ cnt.coerced_booleans < r.bmade

-----------------------------------------------------------------------------
(* C11 as claimed: coerced_numbers is the number of (kept row, integer or  *)
(* float column) cells whose coercion produced a number and                *)
(* coerced_booleans the number of (kept row, boolean column) cells whose   *)
(* coercion produced true or false, whatever the type of the input cell.   *)
C11_EverySuccessCounted == Refining => CountsMade(Recount(Len(inrows)))

(* C11 amended: a successful numeric or boolean coercion is counted when   *)
(* its result differs from the cell it was made from.  Every success on a  *)
(* text cell is counted; a number or boolean cell that already equals its  *)
(* coercion (7 in an integer column, 3 in a float column, True or 1 in a   *)
(* boolean column) is not.                                                 *)
C11_ChangesCounted == Refining => CountsChanged(Recount(Len(inrows)))

C11_Witness ==
    /\ pc = "done"
    /\ scen = "coerce"
    /\ \E i, j \in KeptRows :
          /\ NormIn(i)["fatalities"] = IntV(7) /\ Out(i)["fatalities"] = IntV(7)
          /\ NormIn(i)["hit_and_run"] = IntV(1) /\ Out(i)["hit_and_run"] = BoolV(TRUE)
          /\ NormIn(j)["fatalities"] = StrV(" 12 ") /\ Out(j)["fatalities"] = IntV(12)
    /\ report.coerced_numbers >= 1
    /\ FewerCounted(Recount(Len(inrows)))

-----------------------------------------------------------------------------
(* C12 as claimed: refine_rows is idempotent on values.  When the rows a   *)
(* first call returned are refined again under the same configuration, the *)
(* date, integer, float, boolean, crash-type and roadway-name cells of the *)
(* second output equal those of the first.  The code violates it: the      *)
(* abbreviations pass 1 writes can form a multi-token route pattern, which *)
(* the next call collapses ('Street Road' -> 'ST RD' -> 'SR').             *)

\* the columns refine_rows coerces or standardizes
TransformedColumns ==
    Range(cfg.date_columns) \cup NumberColumns \cup Range(cfg.boolean_columns)
    \cup NameColumns

\* row b carries the cells of row a at every transformed column of a
SameTransformed(a, b) ==
    \A c \in TransformedColumns \cap DOMAIN a : Get(b, c) = a[c]

\* the second call kept every row: row k of its output answers row k of its input
Rowwise(call) == call.returned /\ Len(call.rows) = Len(refined_rows)

C12_Idempotent ==
    (pc = "again" /\ Rowwise(second)) =>
        \A k \in DOMAIN refined_rows : SameTransformed(refined_rows[k], second.rows[k])

-----------------------------------------------------------------------------
(* Pass 2, restated on the texts: the pass-1 value of a cell and the       *)
(* suffixes a base name is seen with.                                      *)

\* the value pass 1 leaves in column c of a kept row
Pass1Of(in, c) == Named(c, Coerced(c, Defaulted(in, c)))

\* the roadway-name texts the kept rows hold after pass 1
Pass1Names ==
    {v \in {Pass1Of(NormIn(x[1]), x[2]) :
               x \in {y \in KeptRows \X ROUTE_COLUMNS : y[2] \in DOMAIN Out(y[1])}} :
        IsStr(v)}

\* the suffixes the base name is seen with among the texts
SuffixesOf(base, names) ==
    {x \in ROUTE_SUFFIX_TOKENS : StrV(base \o " " \o x) \in names}

\* the text names a road without a recognised suffix and is no route number
BareName(tokens) ==
    /\ tokens # <<>>
    /\ tokens[Len(tokens)] \notin ROUTE_SUFFIX_TOKENS
    /\ \A k \in DOMAIN tokens :
          /\ tokens[k] \notin ROUTE_PREFIX_TOKENS
          /\ \E d \in 1..Len(tokens[k]) : SubSeq(tokens[k], d, d) \notin Digits

\* what pass 2 owes a cell whose pass-1 value is v
Suffixed(v, found) ==
    IF Cardinality(found) = 1
    THEN StrV(v.s \o " " \o (CHOOSE x \in found : TRUE))
    ELSE v

AfterPass2(v, names) ==
    IF IsStr(v) /\ BareName(SplitCs(Chars(IF IsStr(v) THEN v.s ELSE "")))
    THEN Suffixed(v, SuffixesOf(v.s, names))
    ELSE v

RowSuffixed(in, out, names) ==
    \A c \in ROUTE_COLUMNS \cap DOMAIN out : out[c] = AfterPass2(Pass1Of(in, c), names)

AllSuffixed(names) == \A i \in KeptRows : RowSuffixed(NormIn(i), Out(i), names)

-----------------------------------------------------------------------------
(* C13: after refine_rows, a roadway-name value without a recognised       *)
(* suffix that is no route number has a suffix appended exactly when its   *)
(* whole text is a base name that occurs, over all roadway-name columns of *)
(* all kept rows, with exactly one distinct suffix, and that suffix is the *)
(* one appended; a base name seen with two or more suffixes changes no     *)
(* value, and no other value is changed by pass 2.                         *)
C13_SuffixLearning == pc = "done" => AllSuffixed(Pass1Names)

C13_Witness ==
    /\ pc = "done"
    /\ scen = "names"
    /\ \E i, j, k \in KeptRows :
          /\ Get(NormIn(i), "road_name") = StrV("Main")
          /\ Get(Out(i), "road_name") = StrV("MAIN ST")
          /\ Get(Out(i), "intersecting_road_name") = StrV("BROAD")
          /\ Get(Out(j), "route") = StrV("MAIN ST")
          /\ Get(Out(k), "road_name") = StrV("BROAD AVE")
          /\ Get(Out(k), "route") = StrV("BROAD ST")

-----------------------------------------------------------------------------
(* C14: within one refine_rows call pass 2 starts only after every kept    *)
(* row has completed pass 1, and its tally is built from the pass-1 values *)
(* of exactly the kept rows of that call: rows dropped for a missing       *)
(* required field or as duplicates, and rows of another call, contribute   *)
(* no observation.                                                         *)

\* the input row that became row k of the output
KeptAt(k) ==
    CHOOSE i \in Rows :
        fate[i] = "kept" /\ Cardinality({j \in 1..i : fate[j] = "kept"}) = k

\* the output row with its roadway-name cells as pass 1 left them
Pass1Row(in, out) ==
    [c \in DOMAIN out |-> IF c \in ROUTE_COLUMNS THEN Pass1Of(in, c) ELSE out[c]]

Pass1Rows ==
    [k \in DOMAIN refined_rows |-> Pass1Row(NormIn(KeptAt(k)), refined_rows[k])]

\* the roadway-name texts the rows given to the second call hold after its pass 1
SecondNames ==
    {v \in {Pass1Of(refined_rows[x[1]], x[2]) :
               x \in {y \in (DOMAIN refined_rows) \X ROUTE_COLUMNS :
                         y[2] \in DOMAIN refined_rows[y[1]]}} :
        IsStr(v)}

SecondSuffixed(names) ==
    \A k \in DOMAIN refined_rows : RowSuffixed(refined_rows[k], second.rows[k], names)

C14_Pass2AfterPass1 ==
    /\ pc = "loop" => refined_rows = Pass1Rows
    /\ pc = "done" => refined_rows = ApplyRouteSuffixes(Pass1Rows)
    /\ (pc = "again" /\ Rowwise(second)) => SecondSuffixed(SecondNames)

C14_Witness ==
    /\ pc = "again"
    /\ scen = "names"
    /\ Rowwise(second)
    /\ \E i, j, m \in Rows :
          /\ fate[i] = "kept" /\ fate[j] = "kept" /\ fate[m] = "missing"
          /\ Get(NormIn(i), "road_name") = StrV("Broad")
          /\ Get(Out(i), "road_name") = StrV("BROAD ST")
          /\ Get(NormIn(j), "road_name") = StrV("Broad St")
          /\ Get(NormIn(m), "road_name") = StrV("Broad Ave")

-----------------------------------------------------------------------------
(* C15: refine_rows_with_boundary refines only the included bucket: the    *)
(* refinement report's total_rows equals the boundary report's             *)
(* included_rows, no excluded or invalid row appears in the refined output *)
(* or contributes to a coercion counter, the dedup index or the suffix     *)
(* tally, and the returned invalid rows are exactly the invalid bucket of  *)
(* the filter with their values unchanged.                                 *)

\* the bucket the coordinates of a row with canonical headers put it in
BucketOfRow(row, lat, lon) ==
    IF IsNone(ParseCoordinate(Get(row, lat))) \/ IsNone(ParseCoordinate(Get(row, lon)))
    THEN "invalid"
    ELSE IF PointInPolygon(Tenths(ParseCoordinate(Get(row, lon))),
                           Tenths(ParseCoordinate(Get(row, lat))), boundary)
    THEN "included"
    ELSE "excluded"

\* per consumed row: its bucket
BucketsOfRows(norm) ==
    [i \in DOMAIN norm |->
        BucketOfRow(norm[i], NormalizeHeader(LatitudeArg(scen)),
                    NormalizeHeader(LongitudeArg(scen)))]

\* the rows among the first n that belong to bucket b, in input order
RECURSIVE RowsOfBucket(_, _, _, _)
RowsOfBucket(norm, buckets, b, n) ==
    IF n = 0 THEN <<>>
    ELSE IF buckets[n] = b
    THEN Append(RowsOfBucket(norm, buckets, b, n - 1), norm[n])
    ELSE RowsOfBucket(norm, buckets, b, n - 1)

\* what refine_rows returns for the rows inside the boundary alone
OfIncludedAlone(rows) == ReturnOfCall(LoopInCall(rows, Len(rows)))

OnlyIncludedRefined(alone) ==
    /\ alone.returned
    /\ refined_rows = alone.rows
    /\ report = [returned |-> TRUE] @@ alone.report

\* every output row, dedup key, counted coercion and roadway name stems from
\* one of the rows inc, the included ones
FromIncluded(inc) ==
    /\ \A k \in DOMAIN refined_rows :
          \E i \in DOMAIN inc : Get(refined_rows[k], "tag") = Get(inc[i], "tag")
    /\ \A key \in dedupe_index : \E i \in DOMAIN inc : DedupeKey(inc[i]) = key
    /\ report.coerced_numbers
          <= Cardinality({i \in DOMAIN inc : IsStr(Get(inc[i], "fatalities"))})
    /\ \A k \in DOMAIN refined_rows :
          Get(refined_rows[k], "road_name")
              \in {StandardizeRoute(Get(inc[i], "road_name")) : i \in DOMAIN inc}

RefinedFrom(inc) ==
    /\ report.total_rows = breport.included_rows
    /\ breport.included_rows = Len(inc)
    /\ OnlyIncludedRefined(OfIncludedAlone(inc))
    /\ FromIncluded(inc)

Returned(norm, buckets) ==
    /\ invalid = RowsOfBucket(norm, buckets, "invalid", Len(norm))
    /\ RefinedFrom(RowsOfBucket(norm, buckets, "included", Len(norm)))

ReturnedFor(norm) == Returned(norm, BucketsOfRows(norm))

C15_OnlyIncludedRefined == pc = "done" => ReturnedFor([i \in Rows |-> NormIn(i)])

C15_Witness ==
    /\ pc = "done"
    /\ Len(inrows) = 3
    /\ BucketOf(1) = "invalid" /\ BucketOf(2) = "excluded" /\ BucketOf(3) = "included"
    /\ Get(NormIn(1), "crash_id") = Get(NormIn(3), "crash_id")
    /\ Get(NormIn(2), "road_name") = StrV("Broad St")
    /\ Get(NormIn(3), "road_name") = StrV("Broad")
    /\ Len(refined_rows) = 1
    /\ Get(refined_rows[1], "road_name") = StrV("BROAD")
    /\ Get(refined_rows[1], "fatalities") = IntV(2)
    /\ report.coerced_numbers = 1
    /\ invalid = <<NormIn(1)>>

-----------------------------------------------------------------------------
(* C16: for every boundary and point, if the crossing test places the      *)
(* point inside any hole ring then point_in_polygon returns false          *)
(* regardless of the outer-ring result; and it returns true only if the    *)
(* point is inside the outer ring by the crossing test and inside no hole. *)

\* "inside" after the first n edges of the ring: toggled at every crossing
RECURSIVE Toggled(_, _, _, _)
Toggled(lon, lat, ring, n) ==
    IF n = 0 THEN FALSE
    ELSE Toggled(lon, lat, ring, n - 1)
            # Intersects(lon, lat, ring[n][1], ring[n][2], ring[n + 1][1], ring[n + 1][2])

\* the crossing test: rings of fewer than 3 points contain nothing
CrossingTest(lon, lat, ring) == Len(ring) >= 3 /\ Toggled(lon, lat, ring, Len(ring) - 1)

InSomeHole(lon, lat) ==
    \E h \in DOMAIN boundary.holes : CrossingTest(lon, lat, boundary.holes[h])

HolesExclude(lon, lat) ==
    /\ InSomeHole(lon, lat) => ~result.value
    /\ result.value => CrossingTest(lon, lat, boundary.outer) /\ ~InSomeHole(lon, lat)

C16_HolesExclude == result.returned => HolesExclude(point[1], point[2])

C16_Witness ==
    /\ result.returned
    /\ ~result.value
    /\ CrossingTest(point[1], point[2], boundary.outer)
    /\ InSomeHole(point[1], point[2])

-----------------------------------------------------------------------------
(* C17: point_in_polygon is total: for every PolygonBoundary with finite   *)
(* coordinates, including an outer ring or hole with fewer than 3 points   *)
(* or with no points at all, it returns a boolean without raising, and it  *)
(* returns false whenever the outer ring has fewer than 3 points.          *)

C17_Total ==
    point # NoPoint =>
        /\ result.returned
        /\ Len(boundary.outer) < 3 => ~result.value

-----------------------------------------------------------------------------
(* Vocabulary of the loader's properties.                                  *)

Loaded == pc # "idle" /\ scen = "loader"

\* the archive has a member whose name ends with .kml
HasMarkup == \E k \in DOMAIN kmz : EndsWithKml(kmz[k].name)

\* the markup the loader reads: the first such member's document
Markup ==
    kmz[CHOOSE k \in DOMAIN kmz :
           EndsWithKml(kmz[k].name) /\ \A j \in 1..(k - 1) : ~EndsWithKml(kmz[j].name)].doc

\* the points of a coordinates text: the tokens with a parsable lon and lat
Points(text) == ParseTokens(SplitCs(Chars(text)), Len(SplitCs(Chars(text))))

PointsOfRing(ring) == IF ring.tag = "coords" THEN Points(ring.text) ELSE <<>>

\* the Polygon elements whose outer ring has at least one point
UsablePolygons(doc) ==
    {k \in DOMAIN doc.polygons : PointsOfRing(doc.polygons[k].outer) # <<>>}

\* the Polygon element a returned boundary was read from
Source == Markup.polygons[CHOOSE k \in UsablePolygons(Markup) : TRUE]

-----------------------------------------------------------------------------
(* C18 as stated: the boundary loader fails with an error, and returns no  *)
(* boundary, whenever the container has no .kml member, the markup         *)
(* contains zero Polygon elements, or it contains more than one Polygon    *)
(* element; it returns a boundary only when the markup contains exactly    *)
(* one Polygon element.                                                    *)

FailsUnlessOne(n) ==
    /\ n # 1 => result.raised /\ ~result.returned
    /\ result.returned => n = 1

C18_ExactlyOnePolygon ==
    Loaded => FailsUnlessOne(IF HasMarkup THEN Len(Markup.polygons) ELSE 0)

(* C18, amended: the loader counts the Polygon elements whose outer ring   *)
(* yields at least one coordinate; elements without an outer ring, or      *)
(* whose outer ring has no parsable coordinate, are skipped.  It fails     *)
(* when there is no .kml member, when no Polygon element has such an outer *)
(* ring, or when more than one has; it returns a boundary exactly when one *)
(* has, and that boundary is read from that element.                       *)

ReadFrom(el) ==
    /\ PointsOfRing(el.outer) # <<>>
    /\ result.value.outer \in {PointsOfRing(el.outer),
                               Append(PointsOfRing(el.outer), PointsOfRing(el.outer)[1])}

C18_OneUsablePolygon ==
    Loaded =>
        /\ FailsUnlessOne(IF HasMarkup /\ Markup.wellformed
                          THEN Cardinality(UsablePolygons(Markup)) ELSE 0)
        /\ result.returned \/ result.raised
        /\ result.returned => ReadFrom(Source)

C18_Witness ==
    /\ Loaded
    /\ result.returned
    /\ Len(Markup.polygons) = 2
    /\ Cardinality(UsablePolygons(Markup)) = 1
    /\ Markup.polygons[1].outer.tag = "absent"

-----------------------------------------------------------------------------
(* C19: every ring (outer ring and every hole) of a boundary returned by   *)
(* the loader is closed, i.e. its first coordinate equals its last;        *)
(* triples whose longitude or latitude cannot be parsed are skipped        *)
(* without aborting the ring, and when the parsed points do not end on the *)
(* first point the first point is appended exactly once.                   *)

ClosedRing(ring) == ring # <<>> /\ ring[1] = ring[Len(ring)]

\* the ring stored for the points
Closed(pts) == IF pts[1] = pts[Len(pts)] THEN pts ELSE Append(pts, pts[1])

\* the stored holes of the first n innerBoundaryIs elements
RECURSIVE ClosedHoles(_, _)
ClosedHoles(inner, n) ==
    IF n = 0 THEN <<>>
    ELSE IF PointsOfRing(inner[n]) = <<>> THEN ClosedHoles(inner, n - 1)
    ELSE Append(ClosedHoles(inner, n - 1), Closed(PointsOfRing(inner[n])))

RingsClosed(b, el) ==
    /\ ClosedRing(b.outer)
    /\ \A h \in DOMAIN b.holes : ClosedRing(b.holes[h])
    /\ b.outer = Closed(PointsOfRing(el.outer))
    /\ b.holes = ClosedHoles(el.inner, Len(el.inner))

C19_RingsClosed == (Loaded /\ result.returned) => RingsClosed(result.value, Source)

C19_Witness ==
    /\ Loaded
    /\ result.returned
    /\ Source.outer.text = "0,0,0 x,1,0 4,0 7 4,4,0 ,3 2,y"
    /\ result.value.outer
          = << <<FloatV(0, 0), FloatV(0, 0)>>, <<FloatV(4, 0), FloatV(0, 0)>>,
               <<FloatV(4, 0), FloatV(4, 0)>>, <<FloatV(0, 0), FloatV(0, 0)>> >>

-----------------------------------------------------------------------------
(* C20: every PolygonBoundary returned by the loader has an outer ring     *)
(* that is a closed sequence of at least 3 coordinates.                    *)

C20_OuterAtLeastThree ==
    (Loaded /\ result.returned) =>
        Len(result.value.outer) >= 3 /\ ClosedRing(result.value.outer)

-----------------------------------------------------------------------------
(* Interleaved calls. *)

\* what refine_rows returns for the raw rows when it runs alone
Alone(raw) == ReturnOfCall(LoopInCall([i \in DOMAIN raw |-> NormalizeRow(raw[i])], Len(raw)))

\* the dedupe keys of the raw rows
KeysOf(raw) == {DedupeKey(NormalizeRow(raw[i])) : i \in DOMAIN raw}

AsAlone(call) ==
    /\ call.st.index \subseteq KeysOf(call.in)
    /\ call.pc = "done" => call.out = Alone(call.in)

(* C21: refine_rows calls share no mutable state: two calls over disjoint  *)
(* row sets, interleaved in any way at row granularity, each return the    *)
(* same rows and report as when run alone, and a call starts with an empty *)
(* dedup index and an empty suffix tally, so a key or suffix seen in       *)
(* another call never drops or rewrites a row of this call.                *)
C21_CallsIndependent == pc = "calls" => \A k \in CallIds : AsAlone(calls[k])

C21_Witness ==
    /\ pc = "calls"
    /\ calls[1].pc = "done" /\ calls[2].pc = "done"
    /\ Len(calls[1].in) = 2 /\ Len(calls[2].in) = 2
    /\ Get(NormalizeRow(calls[1].in[1]), "id") = StrV("2")
    /\ Get(NormalizeRow(calls[1].in[2]), "route") = StrV("Main Street")
    /\ Get(NormalizeRow(calls[2].in[1]), "id") = StrV("2")
    /\ Get(NormalizeRow(calls[2].in[2]), "road_name") = StrV("Main")
    /\ calls[2].out.report.kept_rows = 2
    /\ Get(calls[1].out.rows[2], "route") = StrV("MAIN ST")
    /\ Get(calls[2].out.rows[2], "road_name") = StrV("MAIN")

-----------------------------------------------------------------------------
(* Columns that pass through. *)

\* the columns named in an option of the configuration
NamedColumns ==
    Range(cfg.required_columns) \cup Range(cfg.date_columns)
    \cup Range(cfg.integer_columns) \cup Range(cfg.float_columns)
    \cup Range(cfg.boolean_columns) \cup Range(cfg.dedupe_on)
    \cup DOMAIN cfg.fill_defaults

\* the columns refine_rows rewrites: those with a default or a coercion and
\* the fixed crash-type and roadway-name columns of the name standardizer
RewrittenColumns ==
    Range(cfg.date_columns) \cup Range(cfg.integer_columns)
    \cup Range(cfg.float_columns) \cup Range(cfg.boolean_columns)
    \cup DOMAIN cfg.fill_defaults \cup CRASH_TYPE_COLUMNS \cup ROUTE_COLUMNS

\* the output row out has every column of the input row in outside the set
\* columns with the value it had, and no column the input did not have
PassesThrough(in, out, columns) ==
    /\ DOMAIN in \subseteq DOMAIN out
    /\ DOMAIN out \ DOMAIN in \subseteq columns
    /\ \A c \in DOMAIN in \ columns : out[c] = in[c]

(* C22 as claimed: for every kept row, every column that is not named in   *)
(* any RefinementConfig option has in the output row exactly the value it  *)
(* had in the input row.                                                   *)
C22_UnnamedUntouched ==
    pc = "done" => \A i \in KeptRows : PassesThrough(NormIn(i), Out(i), NamedColumns)

(* C22 amended: for every kept row, every column that has no default and   *)
(* no coercion configured and is not one of the fixed crash-type or        *)
(* roadway-name columns of the name standardizer has in the output row     *)
(* exactly the value it had in the input row; the output row has the       *)
(* columns of the input row and at most the rewritten ones besides.        *)
C22_UnconfiguredUntouched ==
    pc = "done" => \A i \in KeptRows : PassesThrough(NormIn(i), Out(i), RewrittenColumns)

C22_Witness ==
    /\ pc = "done"
    /\ \E i \in KeptRows :
          /\ \E c \in DOMAIN NormIn(i) \ RewrittenColumns : IsStr(NormIn(i)[c])
          /\ \E c \in ROUTE_COLUMNS \ NamedColumns :
                c \in DOMAIN NormIn(i) /\ Out(i)[c] # NormIn(i)[c]

-----------------------------------------------------------------------------
(* State roads. *)

\* the tokens of a text value
TokensOf(value) == SplitCs(Chars(value.s))

\* a text value neither begins nor ends with a direction token
NoOuterDirection(value) ==
    TokensOf(value) # <<>> =>
        /\ TokensOf(value)[1] \notin DIRECTION_TOKENS
        /\ TokensOf(value)[Len(TokensOf(value))] \notin DIRECTION_TOKENS

(* C23: pass 1 maps every state-road spelling followed by a numeric token  *)
(* n, with periods, commas, surrounding whitespace and leading or trailing *)
(* direction tokens, to exactly "SR n"; the standardized value never       *)
(* begins or ends with a direction token.                                  *)
C23_StateRoads ==
    pc = "routed" =>
        /\ \A n \in RouteNumbers :
              (IsStr(arg.value) /\ <<arg.value.s, n>> \in StateRoadTexts)
                 => ret.value = StrV("SR " \o n)
        /\ IsStr(ret.value) => NoOuterDirection(ret.value)

C23_Witness ==
    /\ pc = "routed"
    /\ arg.value = StrV(" N St. Rd. 127 ")
    /\ ret.value = StrV("SR 127")

-----------------------------------------------------------------------------
(* Header keys. *)

\* lowercase ASCII letters, digits and single underscores, none at the ends
IsKey(key) ==
    /\ \A i \in 1..Len(key) :
          SubSeq(key, i, i) \in Range(LowerAlpha) \cup Digits \cup {"_"}
    /\ \A i \in 1..(Len(key) - 1) : SubSeq(key, i, i + 1) # "__"
    /\ key # "" => SubSeq(key, 1, 1) # "_" /\ SubSeq(key, Len(key), Len(key)) # "_"

(* C24: header normalization is total and idempotent: the key of every     *)
(* header consists of lowercase ASCII letters, digits and single           *)
(* underscores with none at either end (empty for the empty header),       *)
(* normalizing a key again returns it, and headers that differ only in     *)
(* letter case, surrounding whitespace or the kind and length of their     *)
(* separator runs get the same key.                                        *)
C24_HeaderKeys ==
    pc \in {"normalized", "again"} =>
        /\ IsKey(ret.value)
        /\ arg.value = "" => ret.value = ""
        /\ ret.others = {ret.value}
        /\ pc = "again" => ret.again = ret.value

C24_Witness ==
    /\ pc = "again"
    /\ arg.value = "B -a"
    /\ ret.value = "b_a"
    /\ ret.again = "b_a"
    /\ {"b -a", "B_ _a", "  B -a "} \subseteq arg.others

-----------------------------------------------------------------------------
(* C25 as claimed: when dedupe_on is non-empty, no two rows of the list    *)
(* refine_rows returns have equal values in every dedupe_on column (the    *)
(* values of the output, after defaults, coercion and standardization).    *)
C25_OutputDeduplicated ==
    (pc = "done" /\ cfg.dedupe_on # <<>>) =>
        \A i, j \in DOMAIN refined_rows :
            i < j => ~SameKeyRows(refined_rows[i], refined_rows[j])

(* C25 amended: when dedupe_on is non-empty, no two rows of the list       *)
(* refine_rows returns come from input rows with equal values in every     *)
(* dedupe_on column: the key is built from the values of the input row     *)
(* under normalized headers, before defaults, coercion and                 *)
(* standardization, and compared by exact equality.                        *)
C25_InputDeduplicated ==
    (pc = "done" /\ cfg.dedupe_on # <<>>) =>
        \A i, j \in KeptRows : i < j => ~SameKey(i, j)

C25_Witness ==
    /\ pc = "done"
    /\ cfg.dedupe_on # <<>>
    /\ \E i, j \in KeptRows :
          /\ i < j
          /\ ~SameKey(i, j)
          /\ SameKeyRows(Out(i), Out(j))
    /\ \E k \in Rows : fate[k] = "duplicate"

-----------------------------------------------------------------------------
(* C26: a row dropped for a missing required field never registers its     *)
(* dedupe key: the dedup index holds exactly the keys of the kept rows, so *)
(* a later row with the key of an earlier row that was dropped for a       *)
(* missing required field is kept unless a kept row had that key.          *)
C26_IndexOfKeptRows ==
    pc \in {"loop", "done"} =>
        /\ cfg.dedupe_on # <<>> =>
              dedupe_index = {DedupeKey(NormIn(i)) : i \in KeptRows}
        /\ cfg.dedupe_on = <<>> => dedupe_index = {}
        /\ \A j \in Rows :
              (PassedRequired(j) /\ ~\E i \in KeptRows : i < j /\ SameKey(i, j))
                 => fate[j] = "kept"

C26_Witness ==
    /\ pc = "done"
    /\ cfg.dedupe_on # <<>>
    /\ \E i, j \in Rows :
          /\ i < j
          /\ fate[i] = "missing" /\ fate[j] = "kept"
          /\ SameKey(i, j)
          /\ dedupe_index = {DedupeKey(NormIn(j))}
    /\ \A k \in Rows : fate[k] # "duplicate"

-----------------------------------------------------------------------------
(* C27: refine_rows, filter_rows_by_boundary and refine_rows_with_boundary *)
(* never mutate the caller's input row mappings or the refiner's config:   *)
(* every returned row is a fresh mapping, and all in-place rewriting       *)
(* touches only those fresh mappings.                                      *)
C27_CallerUntouched ==
    (heap # NoHeap /\ pc \in {"frame", "done"}) =>
        /\ \A i \in DOMAIN heap.rows : heap.objs[heap.rows[i]] = heap.given[i]
        /\ cfg = Normalized(RawConfigOf(scen))
        /\ \A i \in DOMAIN heap.returned : heap.returned[i] \notin Range(heap.rows)
        /\ Cardinality(Range(heap.returned)) = Len(heap.returned)

C27_Witness ==
    /\ pc = "done"
    /\ heap.f = "refine_rows_with_boundary"
    /\ Len(heap.refined) = 2 /\ Len(heap.returned) = 2
    /\ Get(NormalizeRow(heap.given[1]), "road_name") = StrV("Broad")
    /\ Get(heap.objs[heap.returned[1]], "road_name") = StrV("BROAD ST")
    /\ Get(heap.objs[heap.returned[1]], "fatalities") = IntV(2)

-----------------------------------------------------------------------------
(* Pass 2 cell by cell. *)

\* the text new is the text old with one recognised suffix token appended
SuffixAppended(old, new) ==
    /\ IsStr(old) /\ IsStr(new)
    /\ \E suffix \in ROUTE_SUFFIX_TOKENS : new.s = old.s \o " " \o suffix

\* a text that ends in a suffix token or is a route number
Settled(value) ==
    /\ IsStr(value)
    /\ TokensOf(value) # <<>>
    /\ \/ IsRouteNumber(TokensOf(value))
       \/ TokensOf(value)[Len(TokensOf(value))] \in ROUTE_SUFFIX_TOKENS

\* the cell at column c went from old to new in pass 2
CellFrame(c, old, new) ==
    new # old =>
        /\ c \in ROUTE_COLUMNS
        /\ SuffixAppended(old, new)
        /\ ~Settled(old)

RowsFrame(before, after) ==
    /\ Len(after) = Len(before)
    /\ \A i \in DOMAIN before :
          /\ DOMAIN after[i] = DOMAIN before[i]
          /\ \A c \in DOMAIN before[i] : CellFrame(c, before[i][c], after[i][c])

(* C28: pass 2 changes nothing except roadway-name column values, and      *)
(* changes such a value only by appending one recognised suffix token: it  *)
(* never adds, removes or reorders rows, never touches other columns,      *)
(* never changes a value that already ends in a suffix token or is a route *)
(* number, and applied a second time to its own result changes nothing.    *)
C28_PassTwoFrame ==
    pc \in {"suffixed", "again"} =>
        /\ RowsFrame(arg.rows, ret.rows)
        /\ pc = "again" => ret.again = ret.rows

C28_Witness ==
    /\ pc = "again"
    /\ Len(arg.rows) = 3
    /\ Get(arg.rows[1], "key") = StrV("BROAD") /\ ret.rows[1] = arg.rows[1]
    /\ Get(arg.rows[2], "road_name") = StrV("BROAD")
    /\ Get(ret.rows[2], "road_name") = StrV("BROAD ST")
    /\ Get(arg.rows[3], "road_name") = StrV("BROAD ST")
    /\ Get(arg.rows[3], "route") = StrV("SR 127")
    /\ ret.rows[3] = arg.rows[3]

-----------------------------------------------------------------------------
(* C29: a client that polls the log endpoint with since = the lastSeq of   *)
(* its previous response, starting at 0, receives every log line of the    *)
(* run exactly once and in increasing seq order under every interleaving   *)
(* with the job thread's append_log calls: between two polls it holds      *)
(* exactly the lines 1 .. lastSeq, in order.                               *)
C29_EveryLineOnce ==
    (pc = "web" /\ client.pc = "idle") =>
        client.got = [i \in 1..client.since |-> i]

-----------------------------------------------------------------------------
(* Status of a run. *)

StatusMoves ==
    { <<"queued", "running">>, <<"running", "success">>, <<"running", "error">> }

\* a snapshot that reports a terminal status carries the final fields
FinalFieldsIn(snapshot, job) ==
    snapshot.status \in {"success", "error"} =>
        /\ snapshot.finishedAt
        /\ snapshot.outputs = "listed"
        /\ (job = "refinement" /\ snapshot.status = "success")
              => snapshot.summary = "built"

(* C30: a run's status moves only queued -> running -> success or error, a *)
(* terminal status never changes, and a snapshot taken concurrently with   *)
(* the job thread that reports success or error has finished_at set and    *)
(* outputs (and, for a successful refinement, summary) populated.          *)
C30_TerminalAfterFinalFields ==
    [][pc = "web" =>
         /\ run'.status # run.status => <<run.status, run'.status>> \in StatusMoves
         /\ FinalFieldsIn(client'.seen, worker'.job)]_vars

====
